---- MODULE Spec2Model ----
(***************************************************************************)
(* A model of the bitboard chess engine: board state, FEN parsing, attack  *)
(* tables, pseudo-legal move generation, makeMove with its legality test,  *)
(* and the perft driver of the test suite.                                 *)
(*                                                                         *)
(* A Bitboard (a 64-bit word, bit i = square i) is the set of its squares. *)
(* Squares are 0..63 with a8 = 0, h8 = 7, a1 = 56, h1 = 63.                *)
(***************************************************************************)
EXTENDS Integers, Sequences, FiniteSets, TLC

VARIABLES board, m_moves, genFrom, last, ply, pstack, pnodes, ptest,
          s_nodes, s_bestMove, s_killerMoves, s_historyHeuristic,
          sortOrder, out, srch

searchVars == <<s_nodes, s_bestMove, s_killerMoves, s_historyHeuristic, sortOrder, out, srch>>

vars == <<board, m_moves, genFrom, last, ply, pstack, pnodes, ptest, searchVars>>

----------------------------------------------------------------------------
(* Enumerations                                                            *)

N_RANKS == 8
N_FILES == 8
N_SQUARES == N_RANKS * N_FILES

White == 0
Black == 1
WhiteAndBlack == 2

WhitePawn == 0
WhiteKnight == 1
WhiteBishop == 2
WhiteRook == 3
WhiteQueen == 4
WhiteKing == 5
BlackPawn == 6
BlackKnight == 7
BlackBishop == 8
BlackRook == 9
BlackQueen == 10
BlackKing == 11
InvalidPiece == 12

WhiteShort == 1
WhiteLong == 2
BlackShort == 4
BlackLong == 8

a8 == 0
b8 == 1
c8 == 2
d8 == 3
e8 == 4
f8 == 5
g8 == 6
h8 == 7
a7 == 8
h7 == 15
a2 == 48
h2 == 55
a1 == 56
b1 == 57
c1 == 58
d1 == 59
e1 == 60
f1 == 61
g1 == 62
h1 == 63
INVALID == 64

Squares == 0 .. (N_SQUARES - 1)
Pieces == WhitePawn .. BlackKing

----------------------------------------------------------------------------
(* Bitboard primitives                                                     *)

EmptyBitboard == {}

getBit(bb, square) == IF square \in bb THEN 1 ELSE 0

setBit(bb, square) == bb \cup {square}

clearBit(bb, square) == bb \ {square}

\* bitboard >> s : bit i moves to bit i - s, bits below 0 fall off
ShiftRight(bb, s) == {x - s : x \in {y \in bb : y - s >= 0}}

\* bitboard << s : bit i moves to bit i + s, bits above 63 fall off
ShiftLeft(bb, s) == {x + s : x \in {y \in bb : y + s <= N_SQUARES - 1}}

\* index of the least significant set bit; callers gate on a non-empty board
getSquareOfLeastSignificantBitIndex(bb) ==
    CHOOSE x \in bb : \A y \in bb : x <= y

\* the squares of a bitboard in the order a "take the lsb, clear it" loop
\* visits them: the i-th square visited has i - 1 set bits below it
BitsInOrder(bb) ==
    [i \in 1 .. Cardinality(bb) |->
       CHOOSE s \in bb : Cardinality({t \in bb : t < s}) = i - 1]

RECURSIVE Flatten(_)
\* the sequences of seqs one after the other
Flatten(seqs) ==
    IF Len(seqs) = 0 THEN <<>>
    ELSE IF Len(seqs) = 1 THEN seqs[1]
    ELSE Flatten(SubSeq(seqs, 1, Len(seqs) \div 2))
           \o Flatten(SubSeq(seqs, Len(seqs) \div 2 + 1, Len(seqs)))

----------------------------------------------------------------------------
(* Leaper attack tables                                                    *)

NOT_A_FILE == {s \in Squares : s % N_FILES /= 0}
NOT_H_FILE == {s \in Squares : s % N_FILES /= 7}
NOT_AB_FILE == {s \in Squares : s % N_FILES \notin {0, 1}}
NOT_GH_FILE == {s \in Squares : s % N_FILES \notin {6, 7}}

generatePawnAttacks(side, square) ==
    LET bitboard == {square}
    IN IF side = White
       THEN (ShiftRight(bitboard, 7) \cap NOT_A_FILE)
              \cup (ShiftRight(bitboard, 9) \cap NOT_H_FILE)
       ELSE (ShiftLeft(bitboard, 7) \cap NOT_H_FILE)
              \cup (ShiftLeft(bitboard, 9) \cap NOT_A_FILE)

\* the knight shifts without the file masks that stop the wrap-around
generateKnightAttacks_Unmasked(square) ==
    LET bitboard == {square}
    IN ShiftRight(bitboard, 17) \cup ShiftRight(bitboard, 15)
         \cup ShiftRight(bitboard, 10) \cup ShiftRight(bitboard, 6)
         \cup ShiftLeft(bitboard, 17) \cup ShiftLeft(bitboard, 15)
         \cup ShiftLeft(bitboard, 10) \cup ShiftLeft(bitboard, 6)

generateKnightAttacks(square) ==
    LET bitboard == {square}
    IN (ShiftRight(bitboard, 17) \cap NOT_H_FILE)
         \cup (ShiftRight(bitboard, 15) \cap NOT_A_FILE)
         \cup (ShiftRight(bitboard, 10) \cap NOT_GH_FILE)
         \cup (ShiftRight(bitboard, 6) \cap NOT_AB_FILE)
         \cup (ShiftLeft(bitboard, 17) \cap NOT_A_FILE)
         \cup (ShiftLeft(bitboard, 15) \cap NOT_H_FILE)
         \cup (ShiftLeft(bitboard, 10) \cap NOT_AB_FILE)
         \cup (ShiftLeft(bitboard, 6) \cap NOT_GH_FILE)

generateKingAttacks(square) ==
    LET bitboard == {square}
    IN ShiftRight(bitboard, 8)
         \cup (ShiftRight(bitboard, 7) \cap NOT_A_FILE)
         \cup (ShiftRight(bitboard, 9) \cap NOT_H_FILE)
         \cup ShiftLeft(bitboard, 8)
         \cup (ShiftLeft(bitboard, 7) \cap NOT_H_FILE)
         \cup (ShiftLeft(bitboard, 9) \cap NOT_A_FILE)
         \cup (ShiftRight(bitboard, 1) \cap NOT_H_FILE)
         \cup (ShiftLeft(bitboard, 1) \cap NOT_A_FILE)

\* initLeaperAttacks fills the four tables for the 64 squares
whitePawnsAttacks == [i \in Squares |-> generatePawnAttacks(White, i)]
blackPawnsAttacks == [i \in Squares |-> generatePawnAttacks(Black, i)]
knightAttacks == [i \in Squares |-> generateKnightAttacks(i)]
kingAttacks == [i \in Squares |-> generateKingAttacks(i)]

----------------------------------------------------------------------------
(* Slider attack tables                                                    *)

\* relevant-occupancy mask of a bishop: the four diagonals without the edge
generateBishopAttacks(square) ==
    LET rank == square \div N_RANKS
        file == square % N_FILES
    IN {(rank + k) * N_FILES + (file + k) : k \in {j \in 1 .. 7 :
            rank + j < N_RANKS - 1 /\ file + j < N_FILES - 1}}
       \cup {(rank - k) * N_FILES + (file + k) : k \in {j \in 1 .. 7 :
            rank - j > 0 /\ file + j < N_FILES - 1}}
       \cup {(rank + k) * N_FILES + (file - k) : k \in {j \in 1 .. 7 :
            rank + j < N_RANKS - 1 /\ file - j > 0}}
       \cup {(rank - k) * N_FILES + (file - k) : k \in {j \in 1 .. 7 :
            rank - j > 0 /\ file - j > 0}}

\* relevant-occupancy mask of a rook: rank and file without the edge
generateRookAttacks(square) ==
    LET rank == square \div N_RANKS
        file == square % N_FILES
    IN {r * N_FILES + file : r \in {j \in 0 .. 7 : j > rank /\ j < N_RANKS - 1}}
       \cup {r * N_FILES + file : r \in {j \in 0 .. 7 : j < rank /\ j > 0}}
       \cup {rank * N_RANKS + f : f \in {j \in 0 .. 7 : j > file /\ j < N_FILES - 1}}
       \cup {rank * N_RANKS + f : f \in {j \in 0 .. 7 : j < file /\ j > 0}}

RECURSIVE RayWalk_NoStop(_, _, _, _, _)
\* a ray loop without the break on an occupied square
RayWalk_NoStop(r, f, dr, df, occupied) ==
    CASE r < 0 \/ r >= N_RANKS \/ f < 0 \/ f >= N_FILES -> {}
      [] OTHER -> {r * N_FILES + f} \cup RayWalk_NoStop(r + dr, f + df, dr, df, occupied)

RECURSIVE RayWalk(_, _, _, _, _)
\* one ray loop of the on-the-fly generators: set the square, stop on a blocker
RayWalk(r, f, dr, df, occupied) ==
    CASE r < 0 \/ r >= N_RANKS \/ f < 0 \/ f >= N_FILES -> {}
      [] r * N_FILES + f \in occupied -> {r * N_FILES + f}
      [] OTHER -> {r * N_FILES + f} \cup RayWalk(r + dr, f + df, dr, df, occupied)

generateBishopAttacksOnTheFly(square, occupied) ==
    LET rank == square \div N_RANKS
        file == square % N_FILES
    IN RayWalk(rank + 1, file + 1, 1, 1, occupied)
         \cup RayWalk(rank - 1, file + 1, -1, 1, occupied)
         \cup RayWalk(rank + 1, file - 1, 1, -1, occupied)
         \cup RayWalk(rank - 1, file - 1, -1, -1, occupied)

generateRookAttacksOnTheFly(square, occupied) ==
    LET rank == square \div N_RANKS
        file == square % N_FILES
    IN RayWalk(rank + 1, file, 1, 0, occupied)
         \cup RayWalk(rank - 1, file, -1, 0, occupied)
         \cup RayWalk(rank, file + 1, 0, 1, occupied)
         \cup RayWalk(rank, file - 1, 0, -1, occupied)

bishopAttacksMasks == [sq \in Squares |-> generateBishopAttacks(sq)]
rookAttacksMasks == [sq \in Squares |-> generateRookAttacks(sq)]

\* The magic numbers hash each blocker subset of the mask to its own table
\* slot; the slot is named here by the blocker subset it holds.
magicIndex(maskedOccupancy) == maskedOccupancy

\* initSlider: the slot of a blocker subset holds its on-the-fly attack set
bishopAttacks(square, index) == generateBishopAttacksOnTheFly(square, index)
rookAttacks(square, index) == generateRookAttacksOnTheFly(square, index)

getKnightAttacks(square, occupancy) == knightAttacks[square]

getBishopAttacks(square, occupancy) ==
    bishopAttacks(square, magicIndex(occupancy \cap bishopAttacksMasks[square]))

getRookAttacks(square, occupancy) ==
    rookAttacks(square, magicIndex(occupancy \cap rookAttacksMasks[square]))

getQueenAttacks(square, occupancy) ==
    getBishopAttacks(square, occupancy) \cup getRookAttacks(square, occupancy)

getKingAttacks(square, occupancy) == kingAttacks[square]

----------------------------------------------------------------------------
(* Board                                                                   *)

MoveOf(source, target, piece, promotedPiece, isCapture, isPawnDoublePush, isEnPassant, isCastling) ==
    [source |-> source, target |-> target, piece |-> piece,
     promotedPiece |-> promotedPiece, isCapture |-> isCapture,
     isPawnDoublePush |-> isPawnDoublePush, isEnPassant |-> isEnPassant,
     isCastling |-> isCastling]

\* Board::Board(): every bitboard and occupancy empty, White to move
EmptyBoard ==
    [bitboards |-> [p \in Pieces |-> EmptyBitboard],
     occupancies |-> [s \in White .. WhiteAndBlack |-> EmptyBitboard],
     sideToMove |-> White,
     castlingRights |-> {},
     enPassantSquare |-> INVALID,
     halfMoveClock |-> 0,
     fullMoveNumber |-> 0]

UnionOf(bitboards, from, to) == UNION {bitboards[p] : p \in from .. to}

\* the occupancy loops stopping one piece short (p < king instead of p <= king)
UpdateOccupancies_NoKing(bitboards) ==
    LET w == UNION {bitboards[p] : p \in WhitePawn .. WhiteQueen}
        b == UNION {bitboards[p] : p \in BlackPawn .. BlackQueen}
    IN [s \in White .. WhiteAndBlack |->
          IF s = White THEN w ELSE IF s = Black THEN b ELSE w \cup b]

\* "Update occupancies": the three occupancies recomputed from the pieces
UpdateOccupancies(bitboards) ==
    LET w == UnionOf(bitboards, WhitePawn, WhiteKing)
        b == UnionOf(bitboards, BlackPawn, BlackKing)
    IN [s \in White .. WhiteAndBlack |->
          IF s = White THEN w ELSE IF s = Black THEN b ELSE w \cup b]

\* isSquareAttacked without the rook test
isSquareAttacked_NoRook(b, square, side) ==
    LET occ == b.occupancies[WhiteAndBlack]
        bbs == b.bitboards
    IN \/ /\ side = White
          /\ blackPawnsAttacks[square] \cap bbs[WhitePawn] /= {}
       \/ /\ side /= White
          /\ whitePawnsAttacks[square] \cap bbs[BlackPawn] /= {}
       \/ knightAttacks[square]
            \cap bbs[IF side = White THEN WhiteKnight ELSE BlackKnight] /= {}
       \/ getBishopAttacks(square, occ)
            \cap bbs[IF side = White THEN WhiteBishop ELSE BlackBishop] /= {}
       \/ getQueenAttacks(square, occ)
            \cap bbs[IF side = White THEN WhiteQueen ELSE BlackQueen] /= {}
       \/ kingAttacks[square]
            \cap bbs[IF side = White THEN WhiteKing ELSE BlackKing] /= {}

isSquareAttacked(b, square, side) ==
    LET occ == b.occupancies[WhiteAndBlack]
        bbs == b.bitboards
    IN \/ /\ side = White
          /\ blackPawnsAttacks[square] \cap bbs[WhitePawn] /= EmptyBitboard
       \/ /\ side /= White
          /\ whitePawnsAttacks[square] \cap bbs[BlackPawn] /= EmptyBitboard
       \/ knightAttacks[square]
            \cap bbs[IF side = White THEN WhiteKnight ELSE BlackKnight] /= EmptyBitboard
       \/ getBishopAttacks(square, occ)
            \cap bbs[IF side = White THEN WhiteBishop ELSE BlackBishop] /= EmptyBitboard
       \/ getRookAttacks(square, occ)
            \cap bbs[IF side = White THEN WhiteRook ELSE BlackRook] /= EmptyBitboard
       \/ getQueenAttacks(square, occ)
            \cap bbs[IF side = White THEN WhiteQueen ELSE BlackQueen] /= EmptyBitboard
       \/ kingAttacks[square]
            \cap bbs[IF side = White THEN WhiteKing ELSE BlackKing] /= EmptyBitboard

----------------------------------------------------------------------------
(* Move generation                                                         *)

PromotionMoves(source, target, piece, isCapture) ==
    <<MoveOf(source, target, piece, WhiteKnight, isCapture, FALSE, FALSE, FALSE),
      MoveOf(source, target, piece, WhiteBishop, isCapture, FALSE, FALSE, FALSE),
      MoveOf(source, target, piece, WhiteRook, isCapture, FALSE, FALSE, FALSE),
      MoveOf(source, target, piece, WhiteQueen, isCapture, FALSE, FALSE, FALSE)>>

\* the Black test copied from the White one without changing the rank
isPromotion_WhiteRank(piece, source) ==
    \/ piece = WhitePawn /\ source >= a7 /\ source <= h7
    \/ piece = BlackPawn /\ source >= a7 /\ source <= h7

isPromotion(piece, source) ==
    \/ piece = WhitePawn /\ source >= a7 /\ source <= h7
    \/ piece = BlackPawn /\ source >= a2 /\ source <= h2

\* the double push tested on the promotion rank
isDoublePush_WrongRank(piece, source) ==
    \/ piece = WhitePawn /\ source >= a7 /\ source <= h7
    \/ piece = BlackPawn /\ source >= a2 /\ source <= h2

isDoublePush(piece, source) ==
    \/ piece = WhitePawn /\ source >= a2 /\ source <= h2
    \/ piece = BlackPawn /\ source >= a7 /\ source <= h7

\* the pawn attack table left out: any pawn may take on the en passant square
enPassantBitboard_NoTable(b, piece, source) ==
    IF piece = WhitePawn /\ b.sideToMove = White
    THEN {b.enPassantSquare}
    ELSE IF piece = BlackPawn /\ b.sideToMove = Black
         THEN {b.enPassantSquare}
         ELSE EmptyBitboard

\* the pawn's attacks from source masked with the en passant square
enPassantBitboard(b, piece, source) ==
    IF piece = WhitePawn /\ b.sideToMove = White
    THEN whitePawnsAttacks[source] \cap {b.enPassantSquare}
    ELSE IF piece = BlackPawn /\ b.sideToMove = Black
         THEN blackPawnsAttacks[source] \cap {b.enPassantSquare}
         ELSE EmptyBitboard

\* the moves generatePawnMoves emits for the pawn on one source square
PawnMovesFrom(b, piece, source) ==
    LET offset == IF piece = WhitePawn THEN -8 ELSE 8
        target == source + offset
        all == b.occupancies[WhiteAndBlack]
        attacks == IF piece = WhitePawn
                   THEN whitePawnsAttacks[source] \cap b.occupancies[Black]
                   ELSE blackPawnsAttacks[source] \cap b.occupancies[White]
        pushes ==
            IF getBit(all, target) = 0
            THEN IF isPromotion(piece, source)
                 THEN PromotionMoves(source, target, piece, FALSE)
                 ELSE <<MoveOf(source, target, piece, InvalidPiece,
                               FALSE, FALSE, FALSE, FALSE)>>
                      \o (IF isDoublePush(piece, source) /\ getBit(all, target + offset) = 0
                          THEN <<MoveOf(source, target + offset, piece, InvalidPiece,
                                        FALSE, TRUE, FALSE, FALSE)>>
                          ELSE <<>>)
            ELSE <<>>
        attackSeq == BitsInOrder(attacks)
        captures ==
            Flatten([i \in 1 .. Len(attackSeq) |->
                IF isPromotion(piece, source)
                THEN PromotionMoves(source, attackSeq[i], piece, TRUE)
                ELSE <<MoveOf(source, attackSeq[i], piece, InvalidPiece,
                              TRUE, FALSE, FALSE, FALSE)>>])
        enPassant ==
            IF /\ b.enPassantSquare /= INVALID
               /\ enPassantBitboard(b, piece, source) /= EmptyBitboard
            THEN <<MoveOf(source, b.enPassantSquare, piece, InvalidPiece,
                          TRUE, FALSE, TRUE, FALSE)>>
            ELSE <<>>
    IN pushes \o captures \o enPassant

generatePawnMoves(b, piece) ==
    LET sources == BitsInOrder(b.bitboards[piece])
    IN Flatten([i \in 1 .. Len(sources) |-> PawnMovesFrom(b, piece, sources[i])])

\* the attack tests of a castling condition left out
castlingSquaresSafe_NoTest(b, squares, opponent) == TRUE

\* none of the squares a castling condition tests is attacked by the opponent
castlingSquaresSafe(b, squares, opponent) ==
    \A square \in squares : ~isSquareAttacked(b, square, opponent)

generateKingCastlingMoves(b, piece) ==
    LET all == b.occupancies[WhiteAndBlack]
        castle(target) ==
            <<MoveOf(IF piece = WhiteKing THEN e1 ELSE e8, target, piece,
                     InvalidPiece, FALSE, FALSE, FALSE, TRUE)>>
    IN IF piece = WhiteKing
       THEN (IF /\ WhiteShort \in b.castlingRights
                /\ getBit(all, f1) = 0
                /\ getBit(all, g1) = 0
                /\ castlingSquaresSafe(b, {e1, f1, g1}, Black)
             THEN castle(g1) ELSE <<>>)
            \o
            (IF /\ WhiteLong \in b.castlingRights
                /\ getBit(all, b1) = 0
                /\ getBit(all, c1) = 0
                /\ getBit(all, d1) = 0
                /\ castlingSquaresSafe(b, {b1, c1, d1, e1}, Black)
             THEN castle(c1) ELSE <<>>)
       ELSE IF piece = BlackKing
       THEN (IF /\ BlackShort \in b.castlingRights
                /\ getBit(all, f8) = 0
                /\ getBit(all, g8) = 0
                /\ castlingSquaresSafe(b, {e8, f8, g8}, White)
             THEN castle(g8) ELSE <<>>)
            \o
            (IF /\ BlackLong \in b.castlingRights
                /\ getBit(all, b8) = 0
                /\ getBit(all, c8) = 0
                /\ getBit(all, d8) = 0
                /\ castlingSquaresSafe(b, {b8, c8, d8, e8}, White)
             THEN castle(c8) ELSE <<>>)
       ELSE <<>>

\* the attack function generatePieceMoves selects for a piece
getAttacks(piece, source, allOccupancy) ==
    CASE piece \in {WhiteKnight, BlackKnight} -> getKnightAttacks(source, allOccupancy)
      [] piece \in {WhiteBishop, BlackBishop} -> getBishopAttacks(source, allOccupancy)
      [] piece \in {WhiteRook, BlackRook} -> getRookAttacks(source, allOccupancy)
      [] piece \in {WhiteQueen, BlackQueen} -> getQueenAttacks(source, allOccupancy)
      [] piece \in {WhiteKing, BlackKing} -> getKingAttacks(source, allOccupancy)

generatePieceMoves(b, piece) ==
    LET side == IF piece >= WhitePawn /\ piece <= WhiteKing THEN White ELSE Black
        opponentSide == IF side = White THEN Black ELSE White
        occupancy == b.occupancies[side]
        opponentOccupancy == b.occupancies[opponentSide]
        allOccupancy == occupancy \cup opponentOccupancy
        sources == BitsInOrder(b.bitboards[piece])
        movesFrom(source) ==
            LET attacks == BitsInOrder(getAttacks(piece, source, allOccupancy) \ occupancy)
            IN [i \in 1 .. Len(attacks) |->
                  MoveOf(source, attacks[i], piece, InvalidPiece,
                         getBit(opponentOccupancy, attacks[i]) /= 0,
                         FALSE, FALSE, FALSE)]
    IN IF piece \in {WhitePawn, BlackPawn} THEN <<>>
       ELSE Flatten([i \in 1 .. Len(sources) |-> movesFrom(sources[i])])

\* the moves one call of generateMoves appends to m_moves
generateMoves(b) ==
    LET pawn == IF b.sideToMove = White THEN WhitePawn ELSE BlackPawn
        king == IF b.sideToMove = White THEN WhiteKing ELSE BlackKing
    IN Flatten([k \in 1 .. (king - pawn + 1) |->
          LET piece == pawn + k - 1
          IN (IF piece = WhitePawn \/ piece = BlackPawn
              THEN generatePawnMoves(b, piece) ELSE <<>>)
             \o generatePieceMoves(b, piece)
             \o (IF piece = WhiteKing \/ piece = BlackKing
                 THEN generateKingCastlingMoves(b, piece) ELSE <<>>)])

----------------------------------------------------------------------------
(* makeMove                                                                *)

\* a capture loop that never finds the captured piece
removeCaptured_Keep(bitboards, side, target) == bitboards

\* the capture loop: clear the first opponent bitboard, pawn to king, that
\* has a bit at target
removeCaptured(bitboards, side, target) ==
    LET oppPawn == IF side = White THEN BlackPawn ELSE WhitePawn
        oppKing == IF side = White THEN BlackKing ELSE WhiteKing
        hit == {p \in oppPawn .. oppKing : getBit(bitboards[p], target) = 1}
    IN IF hit = {} THEN bitboards
       ELSE LET capturedPiece == CHOOSE p \in hit : \A q \in hit : p <= q
            IN [bitboards EXCEPT ![capturedPiece] = clearBit(@, target)]

\* the en passant square taken ahead of the pawn instead of behind it
enPassantSquareAfter_Ahead(side, target, isPawnDoublePush) ==
    IF isPawnDoublePush
    THEN (IF side = White THEN target - 8 ELSE target + 8)
    ELSE INVALID

\* the en passant square makeMove leaves behind
enPassantSquareAfter(side, target, isPawnDoublePush) ==
    IF isPawnDoublePush
    THEN (IF side = White THEN target + 8 ELSE target - 8)
    ELSE INVALID

\* the rook squares setting the right (|=) instead of clearing it (&= ~)
castlingRightsAfter_Set(rights, piece, source, target) ==
    LET cr1 == IF piece = WhiteKing THEN rights \ {WhiteShort, WhiteLong}
               ELSE IF piece = BlackKing THEN rights \ {BlackShort, BlackLong}
               ELSE rights
    IN IF source = a1 \/ target = a1 THEN cr1 \cup {WhiteLong}
       ELSE IF source = h1 \/ target = h1 THEN cr1 \cup {WhiteShort}
       ELSE IF source = a8 \/ target = a8 THEN cr1 \cup {BlackLong}
       ELSE IF source = h8 \/ target = h8 THEN cr1 \cup {BlackShort}
       ELSE cr1

\* "Update castling rights"
castlingRightsAfter(rights, piece, source, target) ==
    LET cr1 == IF piece = WhiteKing THEN rights \ {WhiteShort, WhiteLong}
               ELSE IF piece = BlackKing THEN rights \ {BlackShort, BlackLong}
               ELSE rights
    IN IF source = a1 \/ target = a1 THEN cr1 \ {WhiteLong}
       ELSE IF source = h1 \/ target = h1 THEN cr1 \ {WhiteShort}
       ELSE IF source = a8 \/ target = a8 THEN cr1 \ {BlackLong}
       ELSE IF source = h8 \/ target = h8 THEN cr1 \ {BlackShort}
       ELSE cr1

\* the king of the side now to move tested instead of the mover's
checkedKing_SideToMove(sideToMove) ==
    IF sideToMove = White THEN WhiteKing ELSE BlackKing

\* the king whose square is tested once the side to move is toggled
checkedKing(sideToMove) == IF sideToMove = White THEN BlackKing ELSE WhiteKing

\* Result of makeMove: the value returned and the board it leaves behind.
makeMove(b, move) ==
    LET source == move.source
        target == move.target
        piece == move.piece
        promotedPiece == move.promotedPiece
        side == b.sideToMove
        \* Move the piece
        bb1 == [b.bitboards EXCEPT ![piece] = setBit(clearBit(@, source), target)]
        bb2 == IF move.isCapture THEN removeCaptured(bb1, side, target) ELSE bb1
        ownPawn == IF side = White THEN WhitePawn ELSE BlackPawn
        bb3 == IF promotedPiece /= InvalidPiece
               THEN LET cleared == [bb2 EXCEPT ![ownPawn] = clearBit(@, target)]
                    IN [cleared EXCEPT ![promotedPiece] = setBit(@, target)]
               ELSE bb2
        oppPawn == IF side = White THEN BlackPawn ELSE WhitePawn
        capturedPawnSquare == IF side = White THEN target + 8 ELSE target - 8
        bb4 == IF move.isEnPassant
               THEN [bb3 EXCEPT ![oppPawn] = clearBit(@, capturedPawnSquare)]
               ELSE bb3
        enPassantSquare == enPassantSquareAfter(side, target, move.isPawnDoublePush)
        rook == IF side = White THEN WhiteRook ELSE BlackRook
        invalidCastling == move.isCastling /\ target \notin {g1, c1, g8, c8}
        bb5 == IF ~move.isCastling THEN bb4
               ELSE IF target = g1
                    THEN [bb4 EXCEPT ![rook] = clearBit(setBit(@, f1), h1)]
               ELSE IF target = c1
                    THEN [bb4 EXCEPT ![rook] = clearBit(setBit(@, d1), a1)]
               ELSE IF target = g8
                    THEN [bb4 EXCEPT ![rook] = clearBit(setBit(@, f8), h8)]
               ELSE IF target = c8
                    THEN [bb4 EXCEPT ![rook] = clearBit(setBit(@, d8), a8)]
               ELSE bb4
        newSide == IF side = White THEN Black ELSE White
        after == [b EXCEPT !.bitboards = bb5,
                           !.occupancies = UpdateOccupancies(bb5),
                           !.sideToMove = newSide,
                           !.castlingRights =
                               castlingRightsAfter(@, piece, source, target),
                           !.enPassantSquare = enPassantSquare]
        \* Check if king is in check after the move
        king == checkedKing(newSide)
        kingSquare == getSquareOfLeastSignificantBitIndex(bb5[king])
    IN IF invalidCastling
       THEN [ok |-> FALSE,
             board |-> [b EXCEPT !.bitboards = bb4,
                                 !.enPassantSquare = enPassantSquare]]
       ELSE IF isSquareAttacked(after, kingSquare, newSide)
            THEN [ok |-> FALSE, board |-> b]
            ELSE [ok |-> TRUE, board |-> after]

----------------------------------------------------------------------------
(* parseFENString: a FEN string is the sequence of its characters          *)

DigitChars == <<"0", "1", "2", "3", "4", "5", "6", "7", "8", "9">>
FileChars == <<"a", "b", "c", "d", "e", "f", "g", "h">>
PieceChars == <<"P", "N", "B", "R", "Q", "K", "p", "n", "b", "r", "q", "k">>

isdigit(c) == \E i \in 1 .. Len(DigitChars) : DigitChars[i] = c
DigitValue(c) == (CHOOSE i \in 1 .. Len(DigitChars) : DigitChars[i] = c) - 1
FileValue(c) == (CHOOSE i \in 1 .. Len(FileChars) : FileChars[i] = c) - 1
isalpha(c) == c \notin {"/", " ", "-"} /\ ~isdigit(c)

FENCharacterToPieceWithColor(fenChar) ==
    IF \E i \in 1 .. Len(PieceChars) : PieceChars[i] = fenChar
    THEN (CHOOSE i \in 1 .. Len(PieceChars) : PieceChars[i] = fenChar) - 1
    ELSE InvalidPiece

CharAt(fenString, index) ==
    IF index <= Len(fenString) THEN fenString[index] ELSE "\\0"

RECURSIVE ParsePlacement(_, _, _, _)
\* the piece placement loop: index is the position in the string (from 1)
ParsePlacement(fenString, index, square, bitboards) ==
    IF square > h1 THEN [index |-> index, bitboards |-> bitboards]
    ELSE LET c == CharAt(fenString, index)
         IN IF c = "/"
            THEN ParsePlacement(fenString, index + 1, square, bitboards)
            ELSE IF isdigit(c)
            THEN LET emptySquares == DigitValue(c)
                     skipped == IF emptySquares - 1 > 0 THEN emptySquares - 1 ELSE 0
                 IN ParsePlacement(fenString, index + 1, square + skipped + 1, bitboards)
            ELSE IF isalpha(c)
            THEN LET piece == FENCharacterToPieceWithColor(c)
                 IN ParsePlacement(fenString, index + 1, square + 1,
                        [bitboards EXCEPT ![piece] = setBit(@, square)])
            ELSE ParsePlacement(fenString, index, square + 1, bitboards)

RECURSIVE ParseCastling(_, _, _)
ParseCastling(fenString, index, rights) ==
    LET c == CharAt(fenString, index)
    IN IF c = " " THEN [index |-> index, rights |-> rights]
       ELSE ParseCastling(fenString, index + 1,
                rights \cup (IF c = "K" THEN {WhiteShort}
                             ELSE IF c = "Q" THEN {WhiteLong}
                             ELSE IF c = "k" THEN {BlackShort}
                             ELSE IF c = "q" THEN {BlackLong}
                             ELSE {}))

RECURSIVE ParseNumber(_, _, _)
ParseNumber(fenString, index, value) ==
    LET c == CharAt(fenString, index)
    IN IF isdigit(c)
       THEN ParseNumber(fenString, index + 1, value * 10 + DigitValue(c))
       ELSE [index |-> index, value |-> value]

parseFENString(fenString) ==
    LET placement == ParsePlacement(fenString, 1, a8, EmptyBoard.bitboards)
        sideIndex == placement.index + 1
        sideToMove == IF CharAt(fenString, sideIndex) = "w" THEN White ELSE Black
        castling == ParseCastling(fenString, sideIndex + 2, {})
        epIndex == castling.index + 1
        noEnPassant == CharAt(fenString, epIndex) = "-"
        enPassantSquare ==
            IF noEnPassant THEN INVALID
            ELSE LET file == FileValue(CharAt(fenString, epIndex))
                     rank == N_RANKS - DigitValue(CharAt(fenString, epIndex + 1))
                 IN rank * N_FILES + file
        halfIndex == (IF noEnPassant THEN epIndex + 1 ELSE epIndex + 2) + 1
        half == ParseNumber(fenString, halfIndex, 0)
        full == ParseNumber(fenString, half.index + 1, 0)
    IN [bitboards |-> placement.bitboards,
        occupancies |-> UpdateOccupancies(placement.bitboards),
        sideToMove |-> sideToMove,
        castlingRights |-> castling.rights,
        enPassantSquare |-> enPassantSquare,
        halfMoveClock |-> half.value,
        fullMoveNumber |-> full.value]

----------------------------------------------------------------------------
(* Positions                                                               *)

\* r3k2r/8/8/8/8/8/8/R3K2R w KQkq - 0 1
FenCastle ==
    <<"r", "3", "k", "2", "r", "/", "8", "/", "8", "/", "8", "/", "8", "/",
      "8", "/", "8", "/", "R", "3", "K", "2", "R", " ", "w", " ", "K", "Q",
      "k", "q", " ", "-", " ", "0", " ", "1">>

\* 4k3/8/8/8/1p6/8/P7/4K3 w - - 0 1
FenEnPassant ==
    <<"4", "k", "3", "/", "8", "/", "8", "/", "8", "/", "1", "p", "6", "/",
      "8", "/", "P", "7", "/", "4", "K", "3", " ", "w", " ", "-", " ", "-",
      " ", "0", " ", "1">>

\* 1n6/P7/8/8/8/8/1pk5/R6K w - - 0 1
FenPromote ==
    <<"1", "n", "6", "/", "P", "7", "/", "8", "/", "8", "/", "8", "/", "8",
      "/", "1", "p", "k", "5", "/", "R", "6", "K", " ", "w", " ", "-", " ",
      "-", " ", "0", " ", "1">>

\* 4k3/4r3/8/8/8/8/4B3/4K3 w - - 3 7
FenPin ==
    <<"4", "k", "3", "/", "4", "r", "3", "/", "8", "/", "8", "/", "8", "/",
      "8", "/", "4", "B", "3", "/", "4", "K", "3", " ", "w", " ", "-", " ",
      "-", " ", "3", " ", "7">>

\* rnbqkbnr/pppppppp/8/8/8/8/PPPPPPPP/RNBQKBNR w KQkq - 0 1
FenPerft1 ==
    <<"r", "n", "b", "q", "k", "b", "n", "r", "/", "p", "p", "p", "p", "p",
      "p", "p", "p", "/", "8", "/", "8", "/", "8", "/", "8", "/", "P", "P",
      "P", "P", "P", "P", "P", "P", "/", "R", "N", "B", "Q", "K", "B", "N",
      "R", " ", "w", " ", "K", "Q", "k", "q", " ", "-", " ", "0", " ", "1">>

\* r3k2r/Pppp1ppp/1b3nbN/nP6/BBP1P3/q4N2/Pp1P2PP/R2Q1RK1 w kq - 0 1
FenPerft4 ==
    <<"r", "3", "k", "2", "r", "/", "P", "p", "p", "p", "1", "p", "p", "p",
      "/", "1", "b", "3", "n", "b", "N", "/", "n", "P", "6", "/", "B", "B",
      "P", "1", "P", "3", "/", "q", "4", "N", "2", "/", "P", "p", "1", "P",
      "2", "P", "P", "/", "R", "2", "Q", "1", "R", "K", "1", " ", "w", " ",
      "k", "q", " ", "-", " ", "0", " ", "1">>

\* 4k3/8/8/3pP1P1/8/8/8/4K3 w - d6 0 1
FenEnPassantSet ==
    <<"4", "k", "3", "/", "8", "/", "8", "/", "3", "p", "P", "1", "P", "1",
      "/", "8", "/", "8", "/", "8", "/", "4", "K", "3", " ", "w", " ", "-",
      " ", "d", "6", " ", "0", " ", "1">>

\* the positions the game is played from
GameFens == {FenCastle, FenEnPassant, FenEnPassantSet, FenPromote, FenPin}

\* longest game played from a position
MaxPly == 2

----------------------------------------------------------------------------
(* The board driven by a caller: parse a position, generate, make a move   *)

NoCall == [called |-> FALSE, op |-> "none"]

positiveInfinity == 2147483647

negativeInfinity == -positiveInfinity

maxPly == 256
NullMovePruningReduction == 2
LMRReduction == 2
lateMoveReductionThreshold == 3
minDepthForLMR == 2

\* Move(): the invalid move
DefaultMove == MoveOf(INVALID, INVALID, InvalidPiece, InvalidPiece, FALSE, FALSE, FALSE, FALSE)

\* PVLine: the sequence of its first length moves
EmptyPVLine == <<>>

firstMove_Last(pvLine) == IF Len(pvLine) > 0 THEN pvLine[Len(pvLine)] ELSE DefaultMove

\* pvLine.moves[0], which search reads whatever the length is
firstMove(pvLine) == IF Len(pvLine) > 0 THEN pvLine[1] ELSE DefaultMove

\* the two killer slots of every ply and the history entry of every piece
\* and square, as resetSearchData leaves them
NoKillerMoves == [slot \in 0 .. 1 |-> [p \in 0 .. maxPly - 1 |-> DefaultMove]]
NoHistoryHeuristic == [piece \in WhitePawn .. BlackKing |-> [square \in Squares |-> 0]]

\* the state keeps the two tables as the entries that differ from what
\* resetSearchData leaves: <<slot, ply, move>> and <<piece, square, value>>
killerEntries(killerMoves) ==
    {<<slot, p, killerMoves[slot][p]>> : slot \in 0 .. 1, p \in 0 .. maxPly - 1}
        \ {<<slot, p, DefaultMove>> : slot \in 0 .. 1, p \in 0 .. maxPly - 1}

historyEntries(historyHeuristic) ==
    {<<piece, square, historyHeuristic[piece][square]>> :
        piece \in WhitePawn .. BlackKing, square \in Squares}
        \ {<<piece, square, 0>> : piece \in WhitePawn .. BlackKing, square \in Squares}

\* the tables with the entries kept in the state
killerTable(entries) ==
    [slot \in 0 .. 1 |-> [p \in 0 .. maxPly - 1 |->
        IF \E e \in entries : e[1] = slot /\ e[2] = p
        THEN (CHOOSE e \in entries : e[1] = slot /\ e[2] = p)[3]
        ELSE DefaultMove]]

historyTable(entries) ==
    [piece \in WhitePawn .. BlackKing |-> [square \in Squares |->
        IF \E e \in entries : e[1] = piece /\ e[2] = square
        THEN (CHOOSE e \in entries : e[1] = piece /\ e[2] = square)[3]
        ELSE 0]]

SortOrders == {"asGenerated", "reversed"}

NoSearch == [called |-> FALSE]

\* the static search data and the output before any search
SearchDataInit ==
    /\ s_nodes = 0
    /\ s_bestMove = DefaultMove
    /\ s_killerMoves = killerEntries(NoKillerMoves)
    /\ s_historyHeuristic = historyEntries(NoHistoryHeuristic)
    /\ out = <<>>
    /\ srch = NoSearch


Init ==
    /\ board = EmptyBoard
    /\ m_moves = <<>>
    /\ genFrom = -1
    /\ last = NoCall
    /\ ply = 0
    /\ pstack = <<>>
    /\ pnodes = 0
    /\ ptest = [name |-> "none", depth |-> 0, done |-> FALSE]
    /\ SearchDataInit
    /\ sortOrder = "asGenerated"

ParseFEN(fenString) ==
    /\ board = EmptyBoard
    /\ board' = parseFENString(fenString)
    /\ genFrom' = -1
    /\ last' = [called |-> TRUE, op |-> "parseFENString"]
    /\ UNCHANGED <<m_moves, ply, pstack, pnodes, ptest, searchVars>>

\* generateMoves appends to m_moves; genFrom marks where this call's moves start
GenerateMoves ==
    /\ board /= EmptyBoard
    /\ genFrom = -1
    /\ m_moves' = m_moves \o generateMoves(board)
    /\ genFrom' = Len(m_moves)
    /\ last' = [called |-> TRUE, op |-> "generateMoves"]
    /\ UNCHANGED <<board, ply, pstack, pnodes, ptest, searchVars>>

\* makeMove on a move the last generateMoves call produced for this board
MakeMove(i) ==
    /\ genFrom >= 0
    /\ ply < MaxPly
    /\ i \in (genFrom + 1) .. Len(m_moves)
    /\ LET r == makeMove(board, m_moves[i])
       IN /\ board' = r.board
          /\ last' = [called |-> TRUE, op |-> "makeMove", before |-> board,
                      move |-> m_moves[i], ok |-> r.ok]
          /\ genFrom' = IF r.ok THEN -1 ELSE genFrom
          /\ ply' = IF r.ok THEN ply + 1 ELSE ply
    /\ UNCHANGED <<m_moves, pstack, pnodes, ptest, searchVars>>

Next ==
    \/ \E fenString \in GameFens : ParseFEN(fenString)
    \/ GenerateMoves
    \/ \E i \in 1 .. Len(m_moves) : MakeMove(i)

Spec == Init /\ [][Next]_vars

----------------------------------------------------------------------------
(* perft: the test driver, its recursion unrolled onto a stack of frames   *)

\* deepest perft of the tests that is modelled
PerftDepth == 3

PerftTests == [Position1 |-> FenPerft1, Position4 |-> FenPerft4]

Frame(depth, b) ==
    [depth |-> depth, moves |-> generateMoves(b), i |-> 1, nodes |-> 0, copy |-> b]

PerftInit ==
    /\ \E name \in DOMAIN PerftTests, depth \in 1 .. PerftDepth :
          /\ ptest = [name |-> name, depth |-> depth, done |-> FALSE]
          /\ board = parseFENString(PerftTests[name])
          /\ pstack = <<Frame(depth, board)>>
    /\ pnodes = 0
    /\ m_moves = <<>>
    /\ genFrom = -1
    /\ last = NoCall
    /\ ply = 0
    /\ SearchDataInit
    /\ sortOrder = "asGenerated"

Top == pstack[Len(pstack)]

SetTop(f) == [pstack EXCEPT ![Len(pstack)] = f]

\* makeMove rejects the move: continue with the next one
PerftSkip ==
    /\ pstack /= <<>>
    /\ Top.i <= Len(Top.moves)
    /\ ~makeMove(board, Top.moves[Top.i]).ok
    /\ board' = makeMove(board, Top.moves[Top.i]).board
    /\ pstack' = SetTop([Top EXCEPT !.i = @ + 1])
    /\ UNCHANGED <<pnodes, ptest, m_moves, genFrom, last, ply, searchVars>>

\* the move is accepted and perft(0) returns 1; the board is reset to the copy
PerftLeaf ==
    /\ pstack /= <<>>
    /\ Top.i <= Len(Top.moves)
    /\ Top.depth - 1 = 0
    /\ makeMove(board, Top.moves[Top.i]).ok
    /\ board' = Top.copy
    /\ pstack' = SetTop([Top EXCEPT !.i = @ + 1, !.nodes = @ + 1])
    /\ UNCHANGED <<pnodes, ptest, m_moves, genFrom, last, ply, searchVars>>

\* the move is accepted and perft(depth - 1) is entered
PerftDescend ==
    /\ pstack /= <<>>
    /\ Top.i <= Len(Top.moves)
    /\ Top.depth - 1 > 0
    /\ LET r == makeMove(board, Top.moves[Top.i])
       IN /\ r.ok
          /\ board' = r.board
          /\ pstack' = Append(pstack, Frame(Top.depth - 1, r.board))
    /\ UNCHANGED <<pnodes, ptest, m_moves, genFrom, last, ply, searchVars>>

\* the loop of a frame is over: return its nodes to the caller
PerftReturn ==
    /\ pstack /= <<>>
    /\ Top.i > Len(Top.moves)
    /\ IF Len(pstack) = 1
       THEN /\ pnodes' = Top.nodes
            /\ ptest' = [ptest EXCEPT !.done = TRUE]
            /\ pstack' = <<>>
            /\ UNCHANGED board
       ELSE LET caller == pstack[Len(pstack) - 1]
            IN /\ pstack' = [SubSeq(pstack, 1, Len(pstack) - 1)
                               EXCEPT ![Len(pstack) - 1] =
                                   [caller EXCEPT !.i = @ + 1,
                                                  !.nodes = @ + Top.nodes]]
               /\ board' = caller.copy
               /\ UNCHANGED <<pnodes, ptest>>
    /\ UNCHANGED <<m_moves, genFrom, last, ply, searchVars>>

PerftNext == PerftSkip \/ PerftLeaf \/ PerftDescend \/ PerftReturn

SpecPerft == PerftInit /\ [][PerftNext]_vars

----------------------------------------------------------------------------
(* Evaluation                                                              *)

Pawn == 0

\* the tables are sequences: entry square + 1 holds the value of square

s_piecesValues ==
    <<100, 300, 300, 500, 900, 20000,
      -100, -300, -300, -500, -900, -20000>>

s_pawnTable ==
    <<0, 0, 0, 0, 0, 0, 0, 0,
      50, 50, 50, 50, 50, 50, 50, 50,
      10, 10, 20, 30, 30, 20, 10, 10,
      5, 5, 10, 25, 25, 10, 5, 5,
      0, 0, 0, 20, 20, 0, 0, 0,
      5, -5, -10, 0, 0, -10, -5, 5,
      5, 10, 10, -20, -20, 10, 10, 5,
      0, 0, 0, 0, 0, 0, 0, 0>>

s_knightTable ==
    <<-50, -40, -30, -30, -30, -30, -40, -50,
      -40, -20, 0, 0, 0, 0, -20, -40,
      -30, 0, 10, 15, 15, 10, 0, -30,
      -30, 5, 15, 20, 20, 15, 5, -30,
      -30, 0, 15, 20, 20, 15, 0, -30,
      -30, 5, 10, 15, 15, 10, 5, -30,
      -40, -20, 0, 5, 5, 0, -20, -40,
      -50, -40, -30, -30, -30, -30, -40, -50>>

s_bishopTable ==
    <<-20, -10, -10, -10, -10, -10, -10, -20,
      -10, 0, 0, 0, 0, 0, 0, -10,
      -10, 0, 5, 10, 10, 5, 0, -10,
      -10, 5, 5, 10, 10, 5, 5, -10,
      -10, 0, 10, 10, 10, 10, 0, -10,
      -10, 10, 10, 10, 10, 10, 10, -10,
      -10, 5, 0, 0, 0, 0, 5, -10,
      -20, -10, -10, -10, -10, -10, -10, -20>>

s_rookTable ==
    <<0, 0, 0, 0, 0, 0, 0, 0,
      5, 10, 10, 10, 10, 10, 10, 5,
      -5, 0, 0, 0, 0, 0, 0, -5,
      -5, 0, 0, 0, 0, 0, 0, -5,
      -5, 0, 0, 0, 0, 0, 0, -5,
      -5, 0, 0, 0, 0, 0, 0, -5,
      -5, 0, 0, 0, 0, 0, 0, -5,
      0, 0, 0, 5, 5, 0, 0, 0>>

s_queenTable ==
    <<-20, -10, -10, -5, -5, -10, -10, -20,
      -10, 0, 0, 0, 0, 0, 0, -10,
      -10, 0, 5, 5, 5, 5, 0, -10,
      -5, 0, 5, 5, 5, 5, 0, -5,
      0, 0, 5, 5, 5, 5, 0, -5,
      -10, 5, 5, 5, 5, 5, 0, -10,
      -10, 0, 5, 0, 0, 0, 0, -10,
      -20, -10, -10, -5, -5, -10, -10, -20>>

s_kingMiddleGameTable ==
    <<-30, -40, -40, -50, -50, -40, -40, -30,
      -30, -40, -40, -50, -50, -40, -40, -30,
      -30, -40, -40, -50, -50, -40, -40, -30,
      -30, -40, -40, -50, -50, -40, -40, -30,
      -20, -30, -30, -40, -40, -30, -30, -20,
      -10, -20, -20, -20, -20, -20, -20, -10,
      20, 20, 0, 0, 0, 0, 20, 20,
      20, 30, 10, 0, 0, 10, 30, 20>>

\* the bonus and the penalties of the bishop pair and pawn structure terms
s_bishopPairBonus == 30
s_doublePawnPenalty == -10
s_isolatedPawnPenalty == -15
s_passedPawnBonus == 20

\* the piece-square table of a piece
pieceTable(piece) ==
    CASE piece % 6 = 0 -> s_pawnTable
      [] piece % 6 = 1 -> s_knightTable
      [] piece % 6 = 2 -> s_bishopTable
      [] piece % 6 = 3 -> s_rookTable
      [] piece % 6 = 4 -> s_queenTable
      [] piece % 6 = 5 -> s_kingMiddleGameTable

\* what one piece on one square adds to the score: its value and its
\* piece-square entry, White read at square and Black, negated, at 63 - square
pieceSquareScore(piece, square) ==
    s_piecesValues[piece + 1]
      + (IF piece <= WhiteKing
         THEN pieceTable(piece)[square + 1]
         ELSE -(pieceTable(piece)[(63 - square) + 1]))

RECURSIVE SumOver(_, _)
\* the sum of f over a set of squares
SumOver(f, squares) ==
    IF squares = {} THEN 0
    ELSE LET square == getSquareOfLeastSignificantBitIndex(squares)
         IN f[square] + SumOver(f, squares \ {square})

RECURSIVE SumRange(_, _, _)
\* f[lo] + ... + f[hi], by halves
SumRange(f, lo, hi) ==
    CASE lo > hi -> 0
      [] lo = hi -> f[lo]
      [] OTHER -> SumRange(f, lo, (lo + hi) \div 2)
                    + SumRange(f, (lo + hi) \div 2 + 1, hi)

\* f[0] + ... + f[n]
SumTo(f, n) == SumRange(f, 0, n)

evaluatePawnStructure(b, side) ==
    LET pawns == b.bitboards[IF side = White THEN WhitePawn ELSE BlackPawn]
        others == b.bitboards[IF side = White THEN BlackPawn ELSE WhitePawn]
        pawnCountFile == [file \in 0 .. N_FILES - 1 |->
                            Cardinality({s \in pawns : s % N_FILES = file})]
        doubled == [file \in 0 .. N_FILES - 1 |->
                      IF pawnCountFile[file] > 1
                      THEN (pawnCountFile[file] - 1) * s_doublePawnPenalty ELSE 0]
        isolated == [file \in 0 .. N_FILES - 1 |->
                       LET hasLeftNeighbor == file > 0 /\ pawnCountFile[file - 1] > 0
                           hasRightNeighbor == file < N_FILES - 1
                                               /\ pawnCountFile[file + 1] > 0
                       IN IF pawnCountFile[file] > 0
                             /\ ~hasLeftNeighbor /\ ~hasRightNeighbor
                          THEN pawnCountFile[file] * s_isolatedPawnPenalty ELSE 0]
        isPassed(square) ==
            LET file == square % N_FILES
                rank == square \div N_RANKS
            IN ~\E s \in others :
                  /\ (IF side = White THEN s \div N_FILES < rank
                                      ELSE s \div N_FILES > rank)
                  /\ s % N_FILES >= file - 1
                  /\ s % N_FILES <= file + 1
        passed == [s \in Squares |-> IF isPassed(s) THEN s_passedPawnBonus ELSE 0]
    IN IF pawns = {} THEN 0
       ELSE SumTo(doubled, N_FILES - 1) + SumTo(isolated, N_FILES - 1)
              + SumOver(passed, pawns)

RECURSIVE pieceScore(_, _)
\* the loop over the bits of one piece's bitboard
pieceScore(piece, bitboardPiece) ==
    IF bitboardPiece = EmptyBitboard THEN 0
    ELSE LET square == getSquareOfLeastSignificantBitIndex(bitboardPiece)
         IN pieceSquareScore(piece, square)
              + pieceScore(piece, clearBit(bitboardPiece, square))

\* evaluatePosition without the sign of the side to move
evaluatePosition_Unsigned(b) ==
    LET material == SumTo([piece \in WhitePawn .. BlackKing |->
                             pieceScore(piece, b.bitboards[piece])], BlackKing)
        whiteBishops == Cardinality(b.bitboards[WhiteBishop])
        blackBishops == Cardinality(b.bitboards[BlackBishop])
    IN material
         + (IF whiteBishops >= 2 THEN s_bishopPairBonus ELSE 0)
         - (IF blackBishops >= 2 THEN s_bishopPairBonus ELSE 0)
         + evaluatePawnStructure(b, White)
         - evaluatePawnStructure(b, Black)

evaluatePosition(b) ==
    LET material == SumTo([piece \in WhitePawn .. BlackKing |->
                             pieceScore(piece, b.bitboards[piece])], BlackKing)
        whiteBishops == Cardinality(b.bitboards[WhiteBishop])
        blackBishops == Cardinality(b.bitboards[BlackBishop])
        score == material
                 + (IF whiteBishops >= 2 THEN s_bishopPairBonus ELSE 0)
                 - (IF blackBishops >= 2 THEN s_bishopPairBonus ELSE 0)
                 + evaluatePawnStructure(b, White)
                 - evaluatePawnStructure(b, Black)
    IN IF b.sideToMove = White THEN score ELSE -score

----------------------------------------------------------------------------
(* Search                                                                  *)

\* the search data one search threads through its calls: the static tables,
\* the order std::sort leaves equal scores in, and the calls made so far
\* (caller's ply and depth, callee's ply and depth)
resetSearchData_KeepTables(S) == [S EXCEPT !.nodes = 0, !.bestMove = DefaultMove]

resetSearchData(S) ==
    [S EXCEPT !.nodes = 0,
              !.bestMove = DefaultMove,
              !.killerMoves = NoKillerMoves,
              !.historyHeuristic = NoHistoryHeuristic]

\* a call that function from, running at ply with depth, makes of function
\* fn with toPly and toDepth (0 stands for the depth of quiescence)
\* and the window alpha, beta the call is made with
Called(S, from, fn, atPly, depth, toPly, toDepth, alpha, beta) ==
    [S EXCEPT !.calls = @ \cup {[from |-> from, fn |-> fn, ply |-> atPly,
                                 depth |-> depth, toPly |-> toPly,
                                 toDepth |-> toDepth]},
              !.windows = @ \cup {[fn |-> fn, alpha |-> alpha, beta |-> beta]}]

\* a score that function fn returns, or that is computed as alpha + 1
Returned(S, fn, score) == [S EXCEPT !.scores = @ \cup {[fn |-> fn, score |-> score]}]

\* a negamax call at ply that found no legal move, and the score it returned
NoLegalMoves(S, atPly, inCheck, score) ==
    [S EXCEPT !.ends = @ \cup {[ply |-> atPly, isCheck |-> inCheck, score |-> score]}]

\* Board::isCheck: the king of the side to move is attacked by the opponent
isCheck(b) ==
    LET king == IF b.sideToMove = White THEN WhiteKing ELSE BlackKing
        opponent == IF b.sideToMove = White THEN Black ELSE White
    IN isSquareAttacked(b, getSquareOfLeastSignificantBitIndex(b.bitboards[king]),
                        opponent)

\* Board::makeNullMove: the other side is to move, no en passant square
makeNullMove(b) ==
    [b EXCEPT !.sideToMove = IF @ = White THEN Black ELSE White,
              !.enPassantSquare = INVALID]

calculateScore(move, atPly, isPV, S) ==
    (IF isPV THEN 2000 ELSE 0)
      + (IF move.isCapture
         THEN 1000 + 10 * Pawn - (move.piece % 6)
         ELSE IF S.killerMoves[0][atPly] = move THEN 500
         ELSE IF S.killerMoves[1][atPly] = move THEN 400
         ELSE S.historyHeuristic[move.piece][move.target])
      + (IF move.promotedPiece /= InvalidPiece THEN 300 + move.promotedPiece ELSE 0)
      + (IF move.isCastling THEN 200 ELSE 0)

\* F of the value of v, with v evaluated once
With(v, F(_)) == CHOOSE x \in {F(r) : r \in {v}} : TRUE

\* std::sort by descending score, every move with its score; the order of
\* moves of equal score is unspecified, and is the order of generation or
\* its reverse
sortMoves(moves, atPly, pvLine, S) ==
    LET isPV(a) == Len(pvLine) > 0 /\ atPly < Len(pvLine) /\ pvLine[atPly + 1] = a
        scored == [i \in 1 .. Len(moves) |->
                     [move |-> moves[i], index |-> i,
                      score |-> calculateScore(moves[i], atPly, isPV(moves[i]), S)]]
        first(a, b) ==
            \/ a.score > b.score
            \/ /\ a.score = b.score
               /\ IF S.order = "asGenerated" THEN a.index < b.index
                                             ELSE a.index > b.index
    IN SortSeq(scored, first)

canReduce(moveIndex, move, inCheck, depth, extension) ==
    /\ moveIndex > lateMoveReductionThreshold
    /\ ~move.isCapture
    /\ ~(move.promotedPiece /= InvalidPiece)
    /\ ~inCheck
    /\ depth > minDepthForLMR
    /\ extension = 0

canPrune(inCheck, depth, atPly, pvLineLength) ==
    /\ ~inCheck
    /\ depth >= NullMovePruningReduction + 1
    /\ atPly /= 0
    /\ pvLineLength = 0

\* of the moves of a sorted list, those makeMove accepts on board b, in
\* order, each with its index in the list (from 0) and what makeMove returns
legalMoves(b, moves) ==
    SelectSeq([i \in 1 .. Len(moves) |->
                 [move |-> moves[i].move, moveIndex |-> i - 1,
                  made |-> makeMove(b, moves[i].move)]],
              LAMBDA t : t.made.ok)

\* of the moves of a sorted list, the captures
captureMoves(moves) == SelectSeq(moves, LAMBDA t : t.move.isCapture)

RECURSIVE quiescence(_, _, _, _, _)
RECURSIVE quiescenceLoop(_, _, _, _)
RECURSIVE negamax(_, _, _, _, _, _, _)
RECURSIVE negamaxLoop(_, _, _, _)

quiescenceMove_SamePly(q, i, S) ==
    CHOOSE pass \in
      {IF -child.score >= q.beta
       THEN [returned |-> TRUE, q |-> q, S |-> child.S]
       ELSE [returned |-> FALSE,
             q |-> IF -child.score > q.alpha
                   THEN [q EXCEPT !.alpha = -child.score] ELSE q,
             S |-> child.S]
         : child \in {quiescence(-q.beta, -q.alpha, q.moves[i].made.board, q.ply,
                                 Called(S, "quiescence", "quiescence",
                                        q.ply, 0, q.ply, 0, -q.beta, -q.alpha))}} : TRUE

\* one pass of the loop of quiescence that reaches the recursive call, for
\* the i-th (from 1) of the moves that do; q holds the locals of the call,
\* returned tells that the loop was left, child is the result of the call
quiescenceMove(q, i, S) ==
    CHOOSE pass \in
      {IF -child.score >= q.beta
       THEN [returned |-> TRUE, q |-> q, S |-> child.S]
       ELSE [returned |-> FALSE,
             q |-> IF -child.score > q.alpha
                   THEN [q EXCEPT !.alpha = -child.score] ELSE q,
             S |-> child.S]
         : child \in {quiescence(-q.beta, -q.alpha, q.moves[i].made.board, q.ply + 1,
                                 Called(S, "quiescence", "quiescence",
                                        q.ply, 0, q.ply + 1, 0, -q.beta, -q.alpha))}} : TRUE

\* the passes of the loop for the moves lo .. hi - 1 of q.moves, in this
\* order: those of the first half, then, unless the loop was left, those of
\* the second
quiescenceLoop(q, lo, hi, S) ==
    CASE lo >= hi -> [returned |-> FALSE, q |-> q, S |-> S]
      [] hi - lo = 1 -> quiescenceMove(q, lo, S)
      [] OTHER ->
           CHOOSE passes \in
             {IF first.returned THEN first
              ELSE quiescenceLoop(first.q, (lo + hi) \div 2, hi, first.S)
                : first \in {quiescenceLoop(q, lo, (lo + hi) \div 2, S)}} : TRUE

\* e is the search data with the node counted, the evaluation and, of the
\* sorted moves, those the loop does not skip: the legal captures (sorted
\* after the two early returns, which do not use them)
quiescence(alpha, beta, b, atPly, S0) ==
    CHOOSE result \in
      {CASE atPly >= maxPly ->
              [score |-> e.evaluation, S |-> Returned(e.S, "quiescence", e.evaluation)]
         [] e.evaluation >= beta ->
              [score |-> beta, S |-> Returned(e.S, "quiescence", beta)]
         [] OTHER ->
              CHOOSE afterLoop \in
                {[score |-> IF loop.returned THEN beta ELSE loop.q.alpha,
                  S |-> Returned(loop.S, "quiescence",
                                 IF loop.returned THEN beta ELSE loop.q.alpha)]
                   : loop \in
                       {quiescenceLoop(
                          [alpha |-> IF alpha < e.evaluation THEN e.evaluation
                                                             ELSE alpha,
                           beta |-> beta, board |-> b, ply |-> atPly,
                           moves |-> e.moves],
                          1, Len(e.moves) + 1, e.S)}} : TRUE
         : e \in {[S |-> [S0 EXCEPT !.nodes = @ + 1],
                   evaluation |-> evaluatePosition(b),
                   moves |-> With(generateMoves(b), LAMBDA generated :
                               With(sortMoves(generated, atPly, EmptyPVLine, S0),
                                    LAMBDA sorted :
                                      With(captureMoves(sorted), LAMBDA captures :
                                        legalMoves(b, captures))))]}} : TRUE

\* the null window without its - 1: alpha = beta
searchMove_EmptyWindow(f, moveIndex, move, newBoard, S) ==
    LET toDepth == f.depth - 1 + f.extension
        toReduced == f.depth - LMRReduction + f.extension
        full(line, S1) ==
            negamax(-f.beta, -f.alpha, newBoard, line, toDepth, f.ply + 1,
                    Called(S1, "negamax", "negamax", f.ply, f.depth, f.ply + 1, toDepth,
                           -f.beta, -f.alpha))
        nullWindow(line, S1) ==
            negamax(-f.alpha, -f.alpha, newBoard, line, toDepth, f.ply + 1,
                    Called(S1, "negamax", "negamax", f.ply, f.depth, f.ply + 1, toDepth,
                           -f.alpha, -f.alpha))
        reduced(line, S1) ==
            negamax(-f.alpha, -f.alpha, newBoard, line, toReduced, f.ply + 1,
                    Called(S1, "negamax", "negamax", f.ply, f.depth, f.ply + 1, toReduced,
                           -f.alpha, -f.alpha))
    IN IF f.movesSearched = 0 THEN full(f.line, S)
       ELSE CHOOSE afterProbe \in
              {IF -probe.score > f.alpha
               THEN CHOOSE afterNullWindow \in
                      {IF -nw.score > f.alpha /\ -nw.score < f.beta
                       THEN full(nw.pvLine, nw.S)
                       ELSE nw
                         : nw \in {nullWindow(probe.pvLine, probe.S)}} : TRUE
               ELSE probe
                 : probe \in
                     {IF canReduce(moveIndex, move, f.isCheck, f.depth, f.extension)
                      THEN reduced(f.line, S)
                      ELSE [score |-> -(f.alpha + 1), pvLine |-> f.line,
                            S |-> Returned(S, "alpha + 1", f.alpha + 1)]}} : TRUE

\* the result of the recursive calls made for one legal move of the loop of
\* negamax, not yet negated: full window for the first move; for the others
\* the reduced probe, the null-window search and the full-window re-search.
\* f holds the locals of the negamax call; line is the local PVLine every
\* call of the loop writes to
searchMove(f, moveIndex, move, newBoard, S) ==
    LET toDepth == f.depth - 1 + f.extension
        toReduced == f.depth - LMRReduction + f.extension
        full(line, S1) ==
            negamax(-f.beta, -f.alpha, newBoard, line, toDepth, f.ply + 1,
                    Called(S1, "negamax", "negamax", f.ply, f.depth, f.ply + 1, toDepth,
                           -f.beta, -f.alpha))
        nullWindow(line, S1) ==
            negamax(-f.alpha - 1, -f.alpha, newBoard, line, toDepth, f.ply + 1,
                    Called(S1, "negamax", "negamax", f.ply, f.depth, f.ply + 1, toDepth,
                           -f.alpha - 1, -f.alpha))
        reduced(line, S1) ==
            negamax(-f.alpha - 1, -f.alpha, newBoard, line, toReduced, f.ply + 1,
                    Called(S1, "negamax", "negamax", f.ply, f.depth, f.ply + 1, toReduced,
                           -f.alpha - 1, -f.alpha))
    IN IF f.movesSearched = 0 THEN full(f.line, S)
       ELSE CHOOSE afterProbe \in
              {IF -probe.score > f.alpha
               THEN CHOOSE afterNullWindow \in
                      {IF -nw.score > f.alpha /\ -nw.score < f.beta
                       THEN full(nw.pvLine, nw.S)
                       ELSE nw
                         : nw \in {nullWindow(probe.pvLine, probe.S)}} : TRUE
               ELSE probe
                 : probe \in
                     {IF canReduce(moveIndex, move, f.isCheck, f.depth, f.extension)
                      THEN reduced(f.line, S)
                      ELSE [score |-> -(f.alpha + 1), pvLine |-> f.line,
                            S |-> Returned(S, "alpha + 1", f.alpha + 1)]}} : TRUE

\* one pass of the loop of negamax that reaches the recursive calls, for
\* the i-th (from 1) of the legal moves; returned tells that the loop was
\* left by the beta cutoff; r is the result of the calls made for the move,
\* g the locals after them
negamaxMove(f, i, S) ==
    CHOOSE pass \in
      {LET move == f.moves[i].move
           score == -r.score
           g == [f EXCEPT !.hasLegalMoves = TRUE,
                          !.movesSearched = @ + 1,
                          !.line = r.pvLine]
       IN CASE score >= f.beta ->
                 [returned |-> TRUE, f |-> g,
                  S |-> IF ~move.isCapture
                        THEN [r.S EXCEPT
                                !.killerMoves[1][f.ply] = r.S.killerMoves[0][f.ply],
                                !.killerMoves[0][f.ply] = move]
                        ELSE r.S]
            [] score > f.alpha ->
                 [returned |-> FALSE,
                  f |-> [g EXCEPT !.alpha = score,
                                  !.pvLine = <<move>> \o r.pvLine],
                  S |-> IF ~move.isCapture
                        THEN [r.S EXCEPT
                                !.historyHeuristic[move.piece][move.target] =
                                    @ + f.depth * f.depth]
                        ELSE r.S]
            [] OTHER -> [returned |-> FALSE, f |-> g, S |-> r.S]
         : r \in {searchMove(f, f.moves[i].moveIndex, f.moves[i].move,
                             f.moves[i].made.board, S)}} : TRUE

\* the passes of the loop for the moves lo .. hi - 1 of f.moves, in this
\* order: those of the first half, then, unless the loop was left, those of
\* the second
negamaxLoop(f, lo, hi, S) ==
    CASE lo >= hi -> [returned |-> FALSE, f |-> f, S |-> S]
      [] hi - lo = 1 -> negamaxMove(f, lo, S)
      [] OTHER ->
           CHOOSE passes \in
             {IF first.returned THEN first
              ELSE negamaxLoop(first.f, (lo + hi) \div 2, hi, first.S)
                : first \in {negamaxLoop(f, lo, (lo + hi) \div 2, S)}} : TRUE

mateScore_NoPly(atPly) == negativeInfinity

\* the score of a checkmate found at ply
mateScore(atPly) == negativeInfinity + atPly

noLegalMovesScore_Mate(inCheck, atPly) == mateScore(atPly)

\* what negamax returns when no move was legal: checkmate or stalemate
noLegalMovesScore(inCheck, atPly) == IF inCheck THEN mateScore(atPly) ELSE 0

\* negamax from the null move on: inCheck, moves and S1 are the locals
\* isCheck and moves and the search data of the call; nullMove is the result
\* of the null-move search, fromSort the rest of the function, run with the
\* local PVLine and the search data the null-move search left; f.moves are,
\* of the sorted moves, those the loop does not skip: the legal ones
negamaxFrom(alpha, beta, b, pvLine, depth, atPly, inCheck, moves, S1) ==
    LET toDepth == depth - 1 - NullMovePruningReduction
        fromSort(line, S) ==
            CHOOSE result \in
              {CASE loop.returned ->
                      [score |-> beta, pvLine |-> loop.f.pvLine,
                       S |-> Returned(loop.S, "negamax", beta)]
                 [] ~loop.f.hasLegalMoves ->
                      [score |-> noLegalMovesScore(inCheck, atPly),
                       pvLine |-> loop.f.pvLine,
                       S |-> Returned(NoLegalMoves(loop.S, atPly, inCheck,
                                                   noLegalMovesScore(inCheck, atPly)),
                                      "negamax", noLegalMovesScore(inCheck, atPly))]
                 [] OTHER ->
                      [score |-> loop.f.alpha, pvLine |-> loop.f.pvLine,
                       S |-> Returned(loop.S, "negamax", loop.f.alpha)]
                 : loop \in
                     {CHOOSE passes \in
                        {negamaxLoop(f, 1, Len(f.moves) + 1, S)
                           : f \in {[alpha |-> alpha, beta |-> beta, board |-> b,
                                     pvLine |-> pvLine, line |-> line,
                                     depth |-> depth, ply |-> atPly,
                                     isCheck |-> inCheck,
                                     extension |-> IF inCheck THEN 1 ELSE 0,
                                     moves |-> With(sortMoves(moves, atPly, pvLine, S),
                                                    LAMBDA sorted :
                                                      legalMoves(b, sorted)),
                                     movesSearched |-> 0,
                                     hasLegalMoves |-> FALSE]}} : TRUE}} : TRUE
    IN IF canPrune(inCheck, depth, atPly, Len(pvLine))
       THEN CHOOSE afterNullMove \in
              {IF -nullMove.score >= beta
               THEN [score |-> beta, pvLine |-> pvLine,
                     S |-> Returned(nullMove.S, "negamax", beta)]
               ELSE fromSort(nullMove.pvLine, nullMove.S)
                 : nullMove \in
                     {negamax(-beta, -beta + 1, makeNullMove(b), EmptyPVLine,
                              toDepth, atPly + 1,
                              Called(S1, "negamax", "negamax", atPly, depth,
                                     atPly + 1, toDepth, -beta, -beta + 1))}} : TRUE
       ELSE fromSort(EmptyPVLine, S1)

negamax(alpha, beta, b, pvLine, depth, atPly, S0) ==
    CASE depth = 0 ->
           CHOOSE result \in
             {[score |-> q.score, pvLine |-> EmptyPVLine,
               S |-> Returned(q.S, "negamax", q.score)]
                : q \in {quiescence(alpha, beta, b, atPly,
                                    Called(S0, "negamax", "quiescence",
                                           atPly, depth, atPly, 0, alpha, beta))}} : TRUE
      [] atPly >= maxPly ->
           [score |-> evaluatePosition(b), pvLine |-> pvLine,
            S |-> Returned(S0, "negamax", evaluatePosition(b))]
      [] OTHER ->
           CHOOSE result \in
             {negamaxFrom(alpha, beta, b, pvLine, depth, atPly,
                          e.isCheck, e.moves, e.S)
                : e \in {[isCheck |-> isCheck(b), moves |-> generateMoves(b),
                          S |-> [S0 EXCEPT !.nodes = @ + 1]]}} : TRUE

InfoLine_FirstDepth(currentDepth, score, nodes, line) ==
    [kind |-> "info", depth |-> 1, score |-> score, nodes |-> nodes,
     pv |-> SubSeq(line, 1, IF Len(line) < currentDepth THEN Len(line) ELSE currentDepth)]

\* the "info depth D score cp S nodes N pv ..." line of one iteration
InfoLine(currentDepth, score, nodes, line) ==
    [kind |-> "info", depth |-> currentDepth, score |-> score, nodes |-> nodes,
     pv |-> SubSeq(line, 1, IF Len(line) < currentDepth THEN Len(line) ELSE currentDepth)]

RECURSIVE iterate(_, _, _)
\* the iterations 1 .. currentDepth of the iterative deepening loop of
\* search: the score, the root PVLine, the search data and the lines printed
iterate(b, currentDepth, S0) ==
    IF currentDepth < 1
    THEN [score |-> 0, line |-> EmptyPVLine, S |-> S0, printed |-> <<>>]
    ELSE CHOOSE result \in
           {[score |-> it.n.score, line |-> it.n.pvLine, S |-> it.n.S,
             printed |-> Append(it.printed,
                                InfoLine(currentDepth, it.n.score,
                                         it.n.S.nodes, it.n.pvLine))]
              : it \in
                  {CHOOSE iteration \in
                     {[printed |-> r.printed,
                       n |-> negamax(negativeInfinity, positiveInfinity, b, r.line,
                                     currentDepth, 0,
                                     Called(r.S, "search", "negamax", 0,
                                            currentDepth, 0, currentDepth,
                                            negativeInfinity, positiveInfinity))]
                        : r \in {iterate(b, currentDepth - 1, S0)}} : TRUE}} : TRUE

search(b, depth, S0) ==
    With(iterate(b, depth, resetSearchData(S0)), LAMBDA r :
      [score |-> r.score, line |-> r.line, printed |-> r.printed,
       S |-> [r.S EXCEPT !.bestMove = firstMove(r.line)]])

----------------------------------------------------------------------------
(* The UCI session of a search: position, then go commands                 *)

\* 7k/8/6K1/8/8/8/8/R7 w - - 0 1
FenMateInOne ==
    <<"7", "k", "/", "8", "/", "6", "K", "1", "/", "8", "/", "8", "/", "8",
      "/", "8", "/", "R", "7", " ", "w", " ", "-", " ", "-", " ", "0", " ",
      "1">>

\* 7k/5Q2/6K1/8/8/8/8/8 b - - 0 1
FenStalemate ==
    <<"7", "k", "/", "5", "Q", "2", "/", "6", "K", "1", "/", "8", "/", "8",
      "/", "8", "/", "8", "/", "8", " ", "b", " ", "-", " ", "-", " ", "0",
      " ", "1">>

\* 6k1/8/5K2/8/8/8/8/R7 w - - 0 1
FenRookEnding ==
    <<"6", "k", "1", "/", "8", "/", "5", "K", "2", "/", "8", "/", "8", "/",
      "8", "/", "8", "/", "R", "7", " ", "w", " ", "-", " ", "-", " ", "0",
      " ", "1">>

\* 7k/8/5K2/8/8/8/8/Q7 w - - 0 1
FenQueenEnding ==
    <<"7", "k", "/", "8", "/", "5", "K", "2", "/", "8", "/", "8", "/", "8",
      "/", "8", "/", "Q", "7", " ", "w", " ", "-", " ", "-", " ", "0", " ",
      "1">>

\* 4k3/8/8/3r4/4N3/8/8/4K3 w - - 0 1
FenExchange ==
    <<"4", "k", "3", "/", "8", "/", "8", "/", "3", "r", "4", "/", "4", "N",
      "3", "/", "8", "/", "8", "/", "4", "K", "3", " ", "w", " ", "-", " ",
      "-", " ", "0", " ", "1">>

\* r7/8/8/8/8/6k1/8/7K b - - 0 1
FenMateInOneBlack ==
    <<"r", "7", "/", "8", "/", "8", "/", "8", "/", "8", "/", "6", "k", "1",
      "/", "8", "/", "7", "K", " ", "b", " ", "-", " ", "-", " ", "0", " ",
      "1">>

SearchFens ==
    {FenMateInOne, FenMateInOneBlack, FenStalemate, FenRookEnding, FenQueenEnding,
     FenExchange}

\* deepest search of a go command, and the go commands of one session
MaxDepth == 3
MaxGo == 2

\* the search data of the program, as search receives them
SearchData ==
    [nodes |-> s_nodes, bestMove |-> s_bestMove,
     killerMoves |-> killerTable(s_killerMoves),
     historyHeuristic |-> historyTable(s_historyHeuristic),
     order |-> sortOrder, calls |-> {},
     ends |-> {}, windows |-> {}, scores |-> {}]

BestMoveLine(move) == [kind |-> "bestmove", move |-> move]

GoCommands == Cardinality({i \in 1 .. Len(out) : out[i].kind = "bestmove"})

\* parseGo for "go depth <depth>": the search, its info lines, then bestmove
parseGo(depth) ==
    /\ board /= EmptyBoard
    /\ GoCommands < MaxGo
    /\ \E r \in {search(board, depth, SearchData)} :
          /\ s_nodes' = r.S.nodes
          /\ s_bestMove' = r.S.bestMove
          /\ s_killerMoves' = killerEntries(r.S.killerMoves)
          /\ s_historyHeuristic' = historyEntries(r.S.historyHeuristic)
          /\ out' = out \o r.printed \o <<BestMoveLine(r.S.bestMove)>>
          /\ srch' = [called |-> TRUE, depth |-> depth, score |-> r.score,
                      line |-> r.line, calls |-> r.S.calls, ends |-> r.S.ends,
                      windows |-> r.S.windows, scores |-> r.S.scores,
                      before |-> SearchData, printed |-> r.printed]
    /\ last' = [called |-> TRUE, op |-> "parseGo"]
    /\ UNCHANGED <<board, m_moves, genFrom, ply, pstack, pnodes, ptest, sortOrder>>

SearchInit ==
    /\ board = EmptyBoard
    /\ m_moves = <<>>
    /\ genFrom = -1
    /\ last = NoCall
    /\ ply = 0
    /\ pstack = <<>>
    /\ pnodes = 0
    /\ ptest = [name |-> "none", depth |-> 0, done |-> FALSE]
    /\ SearchDataInit
    /\ sortOrder \in SortOrders

SearchNext ==
    \/ \E fenString \in SearchFens : ParseFEN(fenString)
    \/ \E depth \in 0 .. MaxDepth : parseGo(depth)

SpecSearch == SearchInit /\ [][SearchNext]_vars

----------------------------------------------------------------------------
(* Reference chess geometry, on a mailbox: square -> piece or InvalidPiece *)

RowOf(s) == s \div 8
ColOf(s) == s % 8
Abs(x) == IF x < 0 THEN -x ELSE x
Sign(x) == IF x < 0 THEN -1 ELSE IF x > 0 THEN 1 ELSE 0
Opposite(side) == IF side = White THEN Black ELSE White
RefSideOf(piece) == IF piece <= WhiteKing THEN White ELSE Black
RefKindOf(piece) == piece % 6

Mailbox(bitboards) ==
    [sq \in Squares |->
        IF \E p \in Pieces : sq \in bitboards[p]
        THEN CHOOSE p \in Pieces : sq \in bitboards[p]
        ELSE InvalidPiece]

\* the squares strictly between two squares of one rank, file or diagonal
RefBetween(from, to) ==
    LET dr == RowOf(to) - RowOf(from)
        df == ColOf(to) - ColOf(from)
        n == IF Abs(dr) > Abs(df) THEN Abs(dr) ELSE Abs(df)
    IN {(RowOf(from) + k * Sign(dr)) * 8 + ColOf(from) + k * Sign(df) :
            k \in 1 .. (n - 1)}

RefClear(pos, from, to) == \A s \in RefBetween(from, to) : pos[s] = InvalidPiece

\* the piece standing on `from` attacks `to`
RefPieceAttacks(pos, from, to) ==
    LET piece == pos[from]
        kind == RefKindOf(piece)
        dr == RowOf(to) - RowOf(from)
        df == ColOf(to) - ColOf(from)
        diagonal == Abs(dr) = Abs(df)
        straight == dr = 0 \/ df = 0
    IN /\ from /= to
       /\ CASE kind = 0 -> Abs(df) = 1
                            /\ dr = (IF RefSideOf(piece) = White THEN -1 ELSE 1)
            [] kind = 1 -> {Abs(dr), Abs(df)} = {1, 2}
            [] kind = 2 -> diagonal /\ RefClear(pos, from, to)
            [] kind = 3 -> straight /\ RefClear(pos, from, to)
            [] kind = 4 -> (diagonal \/ straight) /\ RefClear(pos, from, to)
            [] kind = 5 -> Abs(dr) <= 1 /\ Abs(df) <= 1

\* the squares on which side `by` has a piece
RefMen(pos, by) ==
    {s \in Squares : pos[s] /= InvalidPiece /\ RefSideOf(pos[s]) = by}

RefIsAttackedFrom(pos, men, sq) == \E from \in men : RefPieceAttacks(pos, from, sq)

RefIsAttacked(pos, sq, by) == RefIsAttackedFrom(pos, RefMen(pos, by), sq)

\* the position a move record describes, played by `side` on `pos`
RefApply(pos, side, m) ==
    LET placed == IF m.promotedPiece /= InvalidPiece THEN m.promotedPiece ELSE m.piece
        moved == [sq \in Squares |->
                    IF sq = m.target THEN placed
                    ELSE IF sq = m.source THEN InvalidPiece
                    ELSE IF m.isEnPassant
                            /\ sq = (IF side = White THEN m.target + 8 ELSE m.target - 8)
                         THEN InvalidPiece
                    ELSE pos[sq]]
        corner == IF ColOf(m.target) > ColOf(m.source)
                  THEN RowOf(m.source) * 8 + 7 ELSE RowOf(m.source) * 8
        inner == (m.source + m.target) \div 2
    IN IF m.isCastling
       THEN [sq \in Squares |->
               IF sq = corner THEN InvalidPiece
               ELSE IF sq = inner THEN (IF side = White THEN WhiteRook ELSE BlackRook)
               ELSE moved[sq]]
       ELSE moved

\* after the move the mover's king stands on a square the opponent attacks
RefKingAttackedAfter(b, m) ==
    LET side == b.sideToMove
        pos == RefApply(Mailbox(b.bitboards), side, m)
        ownKing == IF side = White THEN WhiteKing ELSE BlackKing
    IN \E ksq \in Squares : pos[ksq] = ownKing /\ RefIsAttacked(pos, ksq, Opposite(side))

----------------------------------------------------------------------------
(* Reference search: negamax with plain alpha-beta, the check extension,   *)
(* the quiescence and the evaluation of the program, and none of null-move *)
(* pruning, late-move reduction, null-window search, killer and history    *)
(* ordering, principal variation                                           *)

\* search data with empty tables, for the calls of quiescence
RefData(order) ==
    [nodes |-> 0, bestMove |-> DefaultMove, killerMoves |-> NoKillerMoves,
     historyHeuristic |-> NoHistoryHeuristic, order |-> order, calls |-> {},
     ends |-> {}, windows |-> {}, scores |-> {}]

RECURSIVE RefNegamax(_, _, _, _, _)
RECURSIVE RefLoop(_, _, _)

\* one pass of the loop, for the i-th (from 1) of the legal moves in
\* generation order; child is the result of the recursive call
RefMove(f, i) ==
    CHOOSE pass \in
      {LET g == [f EXCEPT !.hasLegalMoves = TRUE]
       IN CASE -child >= f.beta -> [returned |-> TRUE, f |-> g]
            [] -child > f.alpha -> [returned |-> FALSE, f |-> [g EXCEPT !.alpha = -child]]
            [] OTHER -> [returned |-> FALSE, f |-> g]
         : child \in {RefNegamax(-f.beta, -f.alpha, f.moves[i].made.board,
                                 f.depth - 1 + (IF f.isCheck THEN 1 ELSE 0),
                                 f.ply + 1)}} : TRUE

RefLoop(f, lo, hi) ==
    CASE lo >= hi -> [returned |-> FALSE, f |-> f]
      [] hi - lo = 1 -> RefMove(f, lo)
      [] OTHER ->
           CHOOSE passes \in
             {IF first.returned THEN first
              ELSE RefLoop(first.f, (lo + hi) \div 2, hi)
                : first \in {RefLoop(f, lo, (lo + hi) \div 2)}} : TRUE

RefNegamax(alpha, beta, b, depth, atPly) ==
    CASE depth = 0 ->
           quiescence(alpha, beta, b, atPly, RefData("asGenerated")).score
      [] atPly >= maxPly -> evaluatePosition(b)
      [] OTHER ->
           CHOOSE result \in
             {CASE loop.returned -> beta
                [] ~loop.f.hasLegalMoves ->
                     IF loop.f.isCheck THEN negativeInfinity + atPly ELSE 0
                [] OTHER -> loop.f.alpha
                : loop \in
                    {CHOOSE passes \in
                       {RefLoop(f, 1, Len(f.moves) + 1)
                          : f \in {[alpha |-> alpha, beta |-> beta, board |-> b,
                                    depth |-> depth, ply |-> atPly,
                                    isCheck |-> isCheck(b),
                                    hasLegalMoves |-> FALSE,
                                    moves |-> With(generateMoves(b), LAMBDA generated :
                                                legalMoves(b,
                                                  [i \in 1 .. Len(generated) |->
                                                     [move |-> generated[i]]]))]}}
                         : TRUE}} : TRUE

\* the score of the reference search of depth depth: its last iteration
RefSearch(b, depth) ==
    IF depth < 1 THEN 0
    ELSE RefNegamax(negativeInfinity, positiveInfinity, b, depth, 0)


MadeMove == last.op = "makeMove"
MoveAccepted == MadeMove /\ last.ok

----------------------------------------------------------------------------
(* Claims                                                                  *)

\* C1: makeMove of a generated move returns false iff the mover's king is
\* attacked by the opponent once the move is applied; on false the board is
\* the board before the call, on true the side to move is the other side.
C1_MakeMoveLegality ==
    MadeMove =>
        /\ (~last.ok) <=> RefKingAttackedAfter(last.before, last.move)
        /\ ~last.ok => board = last.before
        /\ last.ok => board.sideToMove = Opposite(last.before.sideToMove)

\* a move that leaves the mover's king attacked was tried and rejected
C1_Witness ==
    /\ MadeMove
    /\ ~last.ok
    /\ RefKingAttackedAfter(last.before, last.move)
    /\ board = last.before

\* C2: after parseFENString and after every accepted makeMove each side's
\* occupancy is the union of its six piece bitboards, the third occupancy is
\* the union of the two, and the two side occupancies are disjoint.
C2_Occupancies ==
    (last.op = "parseFENString" \/ MoveAccepted) =>
        /\ board.occupancies[White] =
               UNION {board.bitboards[p] : p \in WhitePawn .. WhiteKing}
        /\ board.occupancies[Black] =
               UNION {board.bitboards[p] : p \in BlackPawn .. BlackKing}
        /\ board.occupancies[WhiteAndBlack] =
               board.occupancies[White] \cup board.occupancies[Black]
        /\ board.occupancies[White] \cap board.occupancies[Black] = {}

\* a capture was accepted: the captured piece left its side's occupancy
C2_Witness ==
    /\ MoveAccepted
    /\ last.move.isCapture
    /\ last.move.target \in last.before.occupancies[Opposite(last.before.sideToMove)]
    /\ last.move.target \notin board.occupancies[Opposite(last.before.sideToMove)]
    /\ last.move.target \in board.occupancies[last.before.sideToMove]

\* C3: along accepted moves no square has a bit in more than one of the
\* twelve piece bitboards.
C3_OnePiecePerSquare ==
    \A sq \in Squares : Cardinality({p \in Pieces : sq \in board.bitboards[p]}) <= 1

\* a capture with promotion was accepted
C3_Witness ==
    /\ MoveAccepted
    /\ last.move.isCapture
    /\ last.move.promotedPiece /= InvalidPiece
    /\ Cardinality({p \in Pieces : last.move.target \in board.bitboards[p]}) = 1

\* C4: from a position with one king a side and the side not to move not in
\* check, every board reached has exactly one white and one black king.
C4_OneKingEach ==
    board /= EmptyBoard =>
        /\ Cardinality(board.bitboards[WhiteKing]) = 1
        /\ Cardinality(board.bitboards[BlackKing]) = 1

\* a king was moved by castling and an opponent move was accepted after it
C4_Witness ==
    /\ MoveAccepted
    /\ ply = 2
    /\ board.bitboards[WhiteKing] = {g1}
    /\ Cardinality(board.bitboards[BlackKing]) = 1

C6_CastlingRightsShrink ==
    MadeMove => board.castlingRights \subseteq last.before.castlingRights

\* a rook left its corner and its right is gone
C6_Witness ==
    /\ MoveAccepted
    /\ last.move.source = h1
    /\ WhiteShort \in last.before.castlingRights
    /\ WhiteShort \notin board.castlingRights

\* C7: perft of the starting position is 20, 400 and 8902 at depths 1, 2, 3.
C7_PerftStartpos ==
    (ptest.done /\ ptest.name = "Position1") =>
        pnodes = <<20, 400, 8902>>[ptest.depth]

\* perft(3) of the starting position has returned
C7_Witness ==
    /\ ptest.done
    /\ ptest.name = "Position1"
    /\ ptest.depth = 3
    /\ pnodes = 8902

\* C8: perft of r3k2r/Pppp1ppp/1b3nbN/nP6/BBP1P3/q4N2/Pp1P2PP/R2Q1RK1 w kq
\* is 6, 264 and 9467 at depths 1, 2, 3.
C8_PerftPosition4 ==
    (ptest.done /\ ptest.name = "Position4") =>
        pnodes = <<6, 264, 9467>>[ptest.depth]

\* C9: isSquareAttacked(sq, by) is true iff a piece of side by attacks sq:
\* a pawn diagonally behind sq, a knight or king one step away, or a bishop,
\* rook or queen with an unobstructed ray to sq.
C9_IsSquareAttacked ==
    LET pos == Mailbox(board.bitboards)
    IN \A by \in {White, Black} :
          LET men == RefMen(pos, by)
          IN \A sq \in Squares :
                isSquareAttacked(board, sq, by) <=> RefIsAttackedFrom(pos, men, sq)

\* the rook on e7 attacks the bishop on e2 and not the king behind it
C9_Witness ==
    /\ board.bitboards[BlackRook] = {12}
    /\ board.bitboards[WhiteBishop] = {52}
    /\ isSquareAttacked(board, 52, Black)
    /\ ~isSquareAttacked(board, e1, Black)

\* the moves of the last generateMoves call, made for the current board
FreshMoves == {i \in 1 .. Len(m_moves) : genFrom >= 0 /\ i > genFrom}

\* the pawns of the side to move that stand on their seventh rank
SeventhRankPawns ==
    IF board.sideToMove = White
    THEN {s \in board.bitboards[WhitePawn] : RowOf(s) = 1}
    ELSE {s \in board.bitboards[BlackPawn] : RowOf(s) = 6}

\* exactly four moves from s to t, promoting to knight, bishop, rook, queen
FourPromotions(s, t) ==
    LET these == {i \in FreshMoves : m_moves[i].source = s /\ m_moves[i].target = t}
    IN /\ Cardinality(these) = 4
       /\ \A i \in these : m_moves[i].promotedPiece /= InvalidPiece
       /\ {RefKindOf(m_moves[i].promotedPiece) : i \in these} = {1, 2, 3, 4}

\* C10: for a pawn of the side to move on its seventh rank generateMoves
\* emits exactly four promotions for the push when the square ahead is empty,
\* four for each diagonal capture target, and no move without a promotion.
C10_Promotions ==
    genFrom >= 0 =>
        \A s \in SeventhRankPawns :
            LET pos == Mailbox(board.bitboards)
                side == board.sideToMove
                ahead == IF side = White THEN s - 8 ELSE s + 8
                targets == {t \in Squares :
                              /\ RowOf(t) = RowOf(ahead)
                              /\ Abs(ColOf(t) - ColOf(s)) = 1
                              /\ pos[t] /= InvalidPiece
                              /\ RefSideOf(pos[t]) = Opposite(side)}
            IN /\ pos[ahead] = InvalidPiece => FourPromotions(s, ahead)
               /\ \A t \in targets : FourPromotions(s, t)
               /\ \A i \in FreshMoves :
                      m_moves[i].source = s => m_moves[i].promotedPiece /= InvalidPiece

\* Black to move with a pawn on b2: four pushes to b1, four captures on a1
C10_Witness ==
    /\ genFrom >= 0
    /\ board.sideToMove = Black
    /\ 49 \in board.bitboards[BlackPawn]
    /\ FourPromotions(49, b1)
    /\ FourPromotions(49, a1)

\* the en passant moves among the moves generated for the current board
EnPassantMoves == {i \in FreshMoves : m_moves[i].isEnPassant}

\* C11: generateMoves emits an en passant move only when the en passant
\* square is not INVALID, the moving piece is a pawn of the side to move
\* standing on the source square, and the en passant square is one step
\* diagonally ahead of that pawn; the move targets the en passant square.
C11_EnPassantOnlyWhenSet ==
    \A i \in EnPassantMoves :
        LET m == m_moves[i]
            side == board.sideToMove
            pos == Mailbox(board.bitboards)
        IN /\ board.enPassantSquare /= INVALID
           /\ m.target = board.enPassantSquare
           /\ m.piece = (IF side = White THEN WhitePawn ELSE BlackPawn)
           /\ pos[m.source] = m.piece
           /\ Abs(ColOf(m.target) - ColOf(m.source)) = 1
           /\ RowOf(m.target) - RowOf(m.source) = (IF side = White THEN -1 ELSE 1)

\* en passant on d6 is emitted for the pawn on e5 and not for the pawn on g5
C11_Witness ==
    /\ genFrom >= 0
    /\ board.enPassantSquare = 19
    /\ 30 \in board.bitboards[WhitePawn]
    /\ {m_moves[i].source : i \in EnPassantMoves} = {28}

\* the castling moves among the moves generated for the current board
CastlingMoves == {i \in FreshMoves : m_moves[i].isCastling}

\* the right a castling move of a king to a target square needs
RefCastlingRight(target) ==
    IF target = g1 THEN WhiteShort
    ELSE IF target = c1 THEN WhiteLong
    ELSE IF target = g8 THEN BlackShort ELSE BlackLong

\* C12: every castling move generateMoves emits has its castling right
\* present, the king's start, pass-through and destination squares not
\* attacked by the opponent, and every square strictly between king and rook
\* empty.
C12_CastlingSafe ==
    \A i \in CastlingMoves :
        LET m == m_moves[i]
            side == board.sideToMove
            pos == Mailbox(board.bitboards)
            rookSquare == IF ColOf(m.target) > ColOf(m.source)
                          THEN RowOf(m.source) * 8 + 7 ELSE RowOf(m.source) * 8
            kingPath == RefBetween(m.source, m.target) \cup {m.source, m.target}
        IN /\ m.source = (IF side = White THEN e1 ELSE e8)
           /\ m.target \in (IF side = White THEN {g1, c1} ELSE {g8, c8})
           /\ RefCastlingRight(m.target) \in board.castlingRights
           /\ \A s \in kingPath : ~RefIsAttacked(pos, s, Opposite(side))
           /\ \A s \in RefBetween(m.source, rookSquare) : pos[s] = InvalidPiece

\* Black may castle short and not long: a white rook on d1 attacks d8
C12_Witness ==
    /\ genFrom >= 0
    /\ board.sideToMove = Black
    /\ board.castlingRights = {WhiteShort, BlackShort, BlackLong}
    /\ board.bitboards[WhiteRook] = {d1, h1}
    /\ {m_moves[i].target : i \in CastlingMoves} = {g8}

Searched == srch.called

\* the moves generateMoves produces for b and makeMove accepts on it
LegalMoves(b) ==
    LET moves == generateMoves(b)
    IN {moves[i] : i \in {k \in 1 .. Len(moves) : makeMove(b, moves[k]).ok}}

\* C13: after search(board, depth) with depth >= 1 on a position in which
\* the side to move has a legal move, the best move is the first move of the
\* root principal variation, and it is a move generateMoves produces for the
\* root position and makeMove accepts on it.
C13_BestMove ==
    (Searched /\ srch.depth >= 1 /\ LegalMoves(board) /= {})
        => /\ Len(srch.line) >= 1
           /\ s_bestMove = srch.line[1]
           /\ s_bestMove \in LegalMoves(board)

\* a search of depth 3 whose principal variation has several moves, the
\* first of them the best move, one of several legal moves of the root
C13_Witness ==
    /\ Searched
    /\ srch.depth = MaxDepth
    /\ Len(srch.line) >= 2
    /\ s_bestMove = srch.line[1]
    /\ s_bestMove \in LegalMoves(board)
    /\ Cardinality(LegalMoves(board)) > 1

MatingMoves(b) ==
    {move \in LegalMoves(b) :
        LET after == makeMove(b, move).board
        IN isCheck(after) /\ LegalMoves(after) = {}}

\* C15: on a position in which the side to move can checkmate in one move, a
\* search of depth >= 2 returns INT_MAX - 1 and its best move checkmates; and
\* every negamax call at ply p that finds the side to move in check without
\* a legal move returns -INT_MAX + p, so that a mate at ply p is worth more
\* to the side that mates than a mate at ply p + 1.
C15_MateInOne ==
    Searched =>
        /\ (srch.depth >= 2 /\ MatingMoves(board) /= {})
              => /\ srch.score = positiveInfinity - 1
                 /\ s_bestMove \in MatingMoves(board)
        /\ \A e \in srch.ends : e.isCheck => e.score = negativeInfinity + e.ply
        /\ \A p \in 1 .. maxPly - 2 : -mateScore(p) > -mateScore(p + 1)

\* a search of depth 3 on a mate in one: the score is INT_MAX - 1, the best
\* move mates, and the mate was found by a negamax call at ply 1
C15_Witness ==
    /\ Searched
    /\ srch.depth = MaxDepth
    /\ MatingMoves(board) /= {}
    /\ srch.score = positiveInfinity - 1
    /\ s_bestMove \in MatingMoves(board)
    /\ \E e \in srch.ends : e.isCheck /\ e.ply = 1

Stalemate(b) == LegalMoves(b) = {} /\ ~isCheck(b)

\* C16: on a root position in which the side to move has no legal move and
\* is not in check, search returns 0 for every depth >= 1.
C16_Stalemate ==
    (Searched /\ srch.depth >= 1 /\ Stalemate(board)) => srch.score = 0

\* a search of depth 3 on a stalemate: the root call found no legal move,
\* not in check, and the score is 0
C16_Witness ==
    /\ Searched
    /\ srch.depth = MaxDepth
    /\ Stalemate(board)
    /\ srch.score = 0
    /\ \E e \in srch.ends : e.ply = 0 /\ ~e.isCheck

\* C17: for every position and every depth D >= 1, the score search returns
\* (null-move pruning, late-move reduction, null-window re-search, killer
\* and history ordering) equals the score of the reference negamax with
\* plain alpha-beta, the same quiescence and evaluation and none of these.
C17_SearchEqualsReference ==
    (Searched /\ srch.depth >= 1) => srch.score = RefSearch(board, srch.depth)

\* C18: search(board, 0) performs one iteration, which calls quiescence on
\* the root position, and returns the score of that quiescence call.
C18_DepthZero ==
    (Searched /\ srch.depth = 0) =>
        /\ \E c \in srch.calls : c.fn = "quiescence" /\ c.toPly = 0
        /\ srch.score = quiescence(negativeInfinity, positiveInfinity, board, 0,
                                   RefData(sortOrder)).score

\* C19: for one "go depth N" exactly one info line is printed for each
\* D = 1 .. N, in increasing order of D, and the one bestmove line comes after
\* all of them: the output is made of such blocks, and the block of the last
\* go has N info lines.
C19_InfoLines ==
    /\ \A i \in 1 .. Len(out) :
          out[i].kind = "info" =>
             /\ i < Len(out)
             /\ out[i].depth = IF i = 1 \/ out[i - 1].kind = "bestmove"
                               THEN 1 ELSE out[i - 1].depth + 1
    /\ Searched =>
          LET start == Len(out) - srch.depth - 1
          IN /\ start >= 0
             /\ start = 0 \/ out[start].kind = "bestmove"
             /\ \A D \in 1 .. srch.depth :
                   out[start + D].kind = "info" /\ out[start + D].depth = D
             /\ out[Len(out)].kind = "bestmove"
             /\ GoCommands = 1 + Cardinality({i \in 1 .. start : out[i].kind = "bestmove"})

\* the second go of a session, of depth 3, after a go of depth 2: seven
\* lines, the last four being info 1, 2, 3 and bestmove
C19_Witness ==
    /\ Searched
    /\ srch.depth = MaxDepth
    /\ GoCommands = 2
    /\ Len(out) = 7
    /\ [i \in 1 .. 7 |-> out[i].kind]
          = <<"info", "info", "bestmove", "info", "info", "info", "bestmove">>
    /\ [i \in 4 .. 6 |-> out[i].depth] = [i \in 4 .. 6 |-> i - 3]

\* C20: at the start of every search the node counter, the best move, both
\* killer slots of every ply and every history entry are reset, so that the
\* score and the best move of search(board, depth), and with them the node
\* counts printed and the tables left, are those of the same search run on
\* fresh search data, whatever searches were run before.
C20_ResetSearchData ==
    Searched =>
        /\ resetSearchData(srch.before)
              = [srch.before EXCEPT !.nodes = 0, !.bestMove = DefaultMove,
                                    !.killerMoves = NoKillerMoves,
                                    !.historyHeuristic = NoHistoryHeuristic]
        /\ \A fresh \in {search(board, srch.depth, RefData(sortOrder))} :
              /\ srch.score = fresh.score
              /\ s_bestMove = fresh.S.bestMove
              /\ srch.printed = fresh.printed
              /\ s_nodes = fresh.S.nodes
              /\ killerTable(s_killerMoves) = fresh.S.killerMoves
              /\ historyTable(s_historyHeuristic) = fresh.S.historyHeuristic

\* a search of depth 3 that starts with the node count, the best move, the
\* killer moves and the history of an earlier search in the static data
C20_Witness ==
    /\ Searched
    /\ srch.depth = MaxDepth
    /\ GoCommands = 2
    /\ srch.before.nodes > 0
    /\ srch.before.bestMove /= DefaultMove
    /\ srch.before.killerMoves /= NoKillerMoves
    /\ srch.before.historyHeuristic /= NoHistoryHeuristic
    /\ s_bestMove /= srch.before.bestMove

----------------------------------------------------------------------------
(* C21: the evaluation is signed from the side to move                     *)

\* what the men of one side are worth: each man's value and its entry of the
\* piece-square table, a Black man read at 63 - square, with the bishop pair
\* and the pawn structure of the side
RefSideScore(b, side) ==
    LET first == IF side = White THEN WhitePawn ELSE BlackPawn
        men == {<<piece, square>> \in (first .. first + 5) \X Squares :
                  square \in b.bitboards[piece]}
        worth == [m \in men |->
                    s_piecesValues[m[1] - first + 1]
                      + pieceTable(m[1])[(IF side = White THEN m[2] ELSE 63 - m[2]) + 1]]
        RECURSIVE Total(_)
        Total(left) == IF left = {} THEN 0
                       ELSE LET m == CHOOSE x \in left : TRUE
                            IN worth[m] + Total(left \ {m})
    IN Total(men)
         + (IF Cardinality(b.bitboards[first + 2]) >= 2 THEN s_bishopPairBonus ELSE 0)
         + evaluatePawnStructure(b, side)

\* the raw score: what White has minus what Black has
RefRawScore(b) == RefSideScore(b, White) - RefSideScore(b, Black)

\* C21: for the placement of every position reached, the evaluation with
\* Black to move is the negation of the evaluation with White to move, and
\* the evaluation with White to move is the raw score that counts White's
\* men positive and Black's men negative.
C21_SignedFromSideToMove ==
    \A asWhite \in {[board EXCEPT !.sideToMove = White]} :
    \A asBlack \in {[board EXCEPT !.sideToMove = Black]} :
       /\ evaluatePosition(asBlack) = -evaluatePosition(asWhite)
       /\ evaluatePosition(asWhite) = RefRawScore(board)
       /\ evaluatePosition(board) = IF board.sideToMove = White
                                    THEN RefRawScore(board) ELSE -RefRawScore(board)

\* a position with Black to move after a move was made, where the two sides
\* are not worth the same
C21_Witness ==
    /\ last.called /\ last.op = "makeMove" /\ last.ok
    /\ board.sideToMove = Black
    /\ RefRawScore(board) > 0
    /\ evaluatePosition(board) < 0

----------------------------------------------------------------------------
(* C22: a move touching a rook corner clears the right of that corner      *)

\* the corners a rook castles from
RookCorners == {a1, h1, a8, h8}

\* the right a rook on the corner castles with
CornerRight(corner) ==
    CASE corner = a1 -> WhiteLong
      [] corner = h1 -> WhiteShort
      [] corner = a8 -> BlackLong
      [] corner = h8 -> BlackShort

\* C22: after a successful makeMove, for each of a1, h1, a8, h8 that is the
\* source or the target of the move, the castling right of that corner
\* (WhiteLong, WhiteShort, BlackLong, BlackShort) is absent, also when the
\* source and the target are both corners.
C22_CornerClearsRight ==
    MoveAccepted =>
        \A corner \in RookCorners :
            (last.move.source = corner \/ last.move.target = corner)
                => CornerRight(corner) \notin board.castlingRights

----------------------------------------------------------------------------
(* C23: a castling right that is present has its king and its rook at home *)

\* the king and the rook a right castles with, and where they stand
RightKing(right) == IF right \in {WhiteShort, WhiteLong} THEN WhiteKing ELSE BlackKing
RightRook(right) == IF right \in {WhiteShort, WhiteLong} THEN WhiteRook ELSE BlackRook
RightKingHome(right) == IF right \in {WhiteShort, WhiteLong} THEN e1 ELSE e8
RightCorner(right) == CHOOSE corner \in RookCorners : CornerRight(corner) = right

\* the right has its men at home on board b
RightAtHome(b, right) ==
    /\ RightKingHome(right) \in b.bitboards[RightKing(right)]
    /\ RightCorner(right) \in b.bitboards[RightRook(right)]

\* C23: on every board reached by successful makeMove calls from a parsed
\* position on which it holds, a castling right that is still present has
\* the king of its colour on e1 / e8 and a rook of its colour on its corner;
\* and every castling move generated moves a rook that stands on its corner.
C23_RightImpliesKingAndRook ==
    /\ \A right \in board.castlingRights : RightAtHome(board, right)
    /\ genFrom >= 0 =>
          \A i \in (genFrom + 1) .. Len(m_moves) :
              m_moves[i].isCastling =>
                  RightAtHome(board, RefCastlingRight(m_moves[i].target))

----------------------------------------------------------------------------
(* C24: what a promotion leaves on the board                               *)

\* the men of a side on board b, counted square by square and kind by kind
RefCountOf(b, side) ==
    Cardinality({<<piece, square>> \in Pieces \X Squares :
                   RefSideOf(piece) = side /\ square \in b.bitboards[piece]})

\* the accepted move was a promotion
PromotionMade == MoveAccepted /\ last.move.promotedPiece /= InvalidPiece

\* C24: after a successful makeMove of a promotion generated for side S, the
\* target holds exactly one man, of side S, a knight, bishop, rook or queen;
\* S has no pawn on the source or on the target; and the other side has no
\* more men than before.
C24_PromotionResult ==
    PromotionMade =>
        LET S == last.before.sideToMove
            other == IF S = White THEN Black ELSE White
            target == last.move.target
            source == last.move.source
            onTarget == {piece \in Pieces : target \in board.bitboards[piece]}
            pawn == IF S = White THEN WhitePawn ELSE BlackPawn
        IN /\ Cardinality(onTarget) = 1
           /\ \A piece \in onTarget :
                 /\ RefSideOf(piece) = S
                 /\ piece % 6 \in {WhiteKnight, WhiteBishop, WhiteRook, WhiteQueen}
           /\ source \notin board.bitboards[pawn]
           /\ target \notin board.bitboards[pawn]
           /\ RefCountOf(board, other) <= RefCountOf(last.before, other)

----------------------------------------------------------------------------
(* C25: every castling move that is allowed is generated                   *)

\* where the king lands when it castles with the right
RightKingTarget(right) ==
    CASE right = WhiteShort -> g1
      [] right = WhiteLong -> c1
      [] right = BlackShort -> g8
      [] right = BlackLong -> c8

\* the rights of a side
RightsOf(side) == IF side = White THEN {WhiteShort, WhiteLong} ELSE {BlackShort, BlackLong}

\* castling with the right is allowed on board b: the squares strictly
\* between king and rook are empty, and the king's start, pass-through and
\* destination squares are not attacked by the opponent
RefMayCastle(b, right) ==
    LET pos == Mailbox(b.bitboards)
        from == RightKingHome(right)
        to == RightKingTarget(right)
    IN /\ right \in b.castlingRights
       /\ right \in RightsOf(b.sideToMove)
       /\ \A s \in RefBetween(from, RightCorner(right)) : pos[s] = InvalidPiece
       /\ \A s \in RefBetween(from, to) \cup {from, to} :
             ~RefIsAttacked(pos, s, Opposite(b.sideToMove))

\* C25: whenever the side to move has a castling right, the squares strictly
\* between its king and that rook are empty, and the king's start,
\* pass-through and destination squares are not attacked, generateMoves
\* emits that castling move; for castling long the b-file square need only
\* be empty.
C25_CastlingGenerated ==
    genFrom >= 0 =>
        \A right \in RightsOf(board.sideToMove) :
            RefMayCastle(board, right) =>
                \E i \in CastlingMoves :
                    /\ m_moves[i].source = RightKingHome(right)
                    /\ m_moves[i].target = RightKingTarget(right)

----------------------------------------------------------------------------
(* C26: the moves a call of generateMoves returns                          *)

\* move m is a move of the side to move of board b: its piece is of that
\* side and stands on the source, the target holds no man of that side, and
\* it is a capture exactly when the target holds a man of the other side or
\* the move is en passant
RefMoveOfSideToMove(b, m) ==
    LET side == b.sideToMove
        pos == Mailbox(b.bitboards)
    IN /\ m.piece /= InvalidPiece
       /\ RefSideOf(m.piece) = side
       /\ pos[m.source] = m.piece
       /\ pos[m.target] = InvalidPiece \/ RefSideOf(pos[m.target]) /= side
       /\ m.isCapture <=> (pos[m.target] /= InvalidPiece \/ m.isEnPassant)

\* C26: the list a call of generateMoves returns (getMoves after the call)
\* holds only moves of the side to move of the current position, whatever
\* calls came before: each has the moving piece of the side to move on its
\* source, no man of the side to move on its target, and isCapture set iff
\* the target holds an opponent man or the move is en passant.
C26_OnlyCurrentSide ==
    (last.called /\ last.op = "generateMoves") =>
        \A i \in 1 .. Len(m_moves) : RefMoveOfSideToMove(board, m_moves[i])

----------------------------------------------------------------------------
(* C27: the principal variation is a playable line                         *)

RECURSIVE Playable(_, _)
\* every move of the line is generated for, and accepted by makeMove on,
\* the position the moves before it lead to
Playable(b, line) ==
    \/ Len(line) = 0
    \/ /\ line[1] \in LegalMoves(b)
       /\ Playable(makeMove(b, line[1]).board, Tail(line))

\* C27: when the root negamax call of a search of depth >= 1 returns with a
\* principal variation of length > 0, having raised alpha, the line is
\* playable from the root position: each move is legal in the position its
\* predecessors lead to, also when the line passes through a node that
\* returned a mate or stalemate score.
C27_PlayablePV ==
    (Searched /\ srch.depth >= 1 /\ Len(srch.line) > 0 /\ srch.score > negativeInfinity)
        => Playable(board, srch.line)

----------------------------------------------------------------------------
(* C28: windows and scores stay in the range whose negation is an int      *)

\* x lies in [-INT_MAX, INT_MAX]
InIntMax(x) == x >= -positiveInfinity /\ x <= positiveInfinity

\* x is a 32-bit signed integer
IsInt32(x) == x >= -positiveInfinity - 1 /\ x <= positiveInfinity

\* C28: in every call of negamax and of quiescence made during a search,
\* alpha < beta and both lie in [-INT_MAX, INT_MAX]; every score returned,
\* and every alpha + 1 computed, lies in that range; so the negation of a
\* bound or of a score, and -alpha - 1, -beta + 1 and alpha + 1, are 32-bit
\* signed integers.
C28_NoOverflow ==
    Searched =>
        /\ \A w \in srch.windows :
              /\ w.alpha < w.beta
              /\ InIntMax(w.alpha) /\ InIntMax(w.beta)
              /\ IsInt32(-w.alpha) /\ IsInt32(-w.beta)
              /\ IsInt32(-w.alpha - 1) /\ IsInt32(-w.beta + 1) /\ IsInt32(w.alpha + 1)
        /\ \A r \in srch.scores : InIntMax(r.score) /\ IsInt32(-r.score)
        /\ InIntMax(srch.score)

\* a search of the greatest depth that made null-window calls, computed
\* alpha + 1, had a checkmate score returned one ply down, and searched
\* the window just above minus infinity after a mate was found
C28_Witness ==
    /\ Searched
    /\ srch.depth = MaxDepth
    /\ \E w \in srch.windows : w.fn = "negamax" /\ w.beta = w.alpha + 1
    /\ \E w \in srch.windows : w.alpha = -positiveInfinity /\ w.beta = w.alpha + 1
    /\ \E w \in srch.windows : w.fn = "quiescence" /\ w.beta = positiveInfinity
    /\ \E r \in srch.scores : r.fn = "alpha + 1"
    /\ \E r \in srch.scores : r.fn = "negamax" /\ r.score = -positiveInfinity + 1
    /\ \E r \in srch.scores : r.fn = "negamax" /\ r.score = positiveInfinity - 1

----------------------------------------------------------------------------
(* C29: the evaluation of the colour-flipped position                      *)

\* the square on the same file with rank r turned into rank 9 - r
RefMirror(square) == (7 - RowOf(square)) * 8 + ColOf(square)

\* the same kind of piece of the other colour
RefSwapColour(piece) == IF piece <= WhiteKing THEN piece + 6 ELSE piece - 6

\* board b flipped vertically, with the colour of every piece and the side
\* to move swapped
RefFlip(b) ==
    LET flipped == [piece \in Pieces |->
                      {RefMirror(square) : square \in b.bitboards[RefSwapColour(piece)]}]
        white == UNION {flipped[piece] : piece \in WhitePawn .. WhiteKing}
        black == UNION {flipped[piece] : piece \in BlackPawn .. BlackKing}
    IN [b EXCEPT !.bitboards = flipped,
                 !.occupancies = [side \in White .. WhiteAndBlack |->
                                    IF side = White THEN white
                                    ELSE IF side = Black THEN black
                                    ELSE white \cup black],
                 !.sideToMove = Opposite(b.sideToMove),
                 !.castlingRights =
                     {IF right = WhiteShort THEN BlackShort
                      ELSE IF right = WhiteLong THEN BlackLong
                      ELSE IF right = BlackShort THEN WhiteShort ELSE WhiteLong
                        : right \in b.castlingRights},
                 !.enPassantSquare = IF b.enPassantSquare = INVALID THEN INVALID
                                     ELSE RefMirror(b.enPassantSquare)]

\* the position itself and the positions one legal move away, which a search
\* of depth 1 evaluates
RootAndChildren(b) == {b} \cup {makeMove(b, m).board : m \in LegalMoves(b)}

\* C29: for every position P the search evaluates, the evaluation of the
\* position got from P by flipping the board vertically, swapping the colour
\* of every piece and swapping the side to move equals the evaluation of P;
\* and a Black piece gets, negated, the value and piece-square entry a White
\* piece of its kind gets on the vertically mirrored square.
C29_ColourSymmetric ==
    \A P \in RootAndChildren(board) :
        /\ evaluatePosition(RefFlip(P)) = evaluatePosition(P)
        /\ \A piece \in Pieces :
              \A square \in RefFlip(P).bitboards[piece] \cup P.bitboards[piece] :
                  pieceSquareScore(piece, square)
                      = -pieceSquareScore(RefSwapColour(piece), RefMirror(square))

----------------------------------------------------------------------------
(* C30: the leaper tables against attack sets computed from coordinates    *)

\* the squares of the board at one of the (rank, file) offsets from square,
\* ranks counted toward rank 8 and files toward the h file
RefLeaps(square, offsets) ==
    {t \in Squares :
        \E o \in offsets :
            /\ RowOf(t) = RowOf(square) - o[1]
            /\ ColOf(t) = ColOf(square) + o[2]}

RefPawnOffsets(side) == IF side = White THEN {<<1, -1>>, <<1, 1>>}
                                        ELSE {<<-1, -1>>, <<-1, 1>>}

RefKnightOffsets ==
    {o \in (-2 .. 2) \X (-2 .. 2) : {Abs(o[1]), Abs(o[2])} = {1, 2}}

RefKingOffsets == ((-1 .. 1) \X (-1 .. 1)) \ {<<0, 0>>}

\* C30: for each of the 64 squares, whitePawnsAttacks and blackPawnsAttacks
\* are exactly the squares of the board one rank forward (toward rank 8 for
\* White, rank 1 for Black) and one file to the side, knightAttacks exactly
\* those at rank/file offsets (1,2) or (2,1), kingAttacks exactly the
\* adjacent ones: nothing wraps around the a and h files; so the knight
\* moves, king steps and pawn captures generated from them stay in these sets.
C30_LeaperTables ==
    /\ \A sq \in Squares :
          /\ whitePawnsAttacks[sq] = RefLeaps(sq, RefPawnOffsets(White))
          /\ blackPawnsAttacks[sq] = RefLeaps(sq, RefPawnOffsets(Black))
          /\ knightAttacks[sq] = RefLeaps(sq, RefKnightOffsets)
          /\ kingAttacks[sq] = RefLeaps(sq, RefKingOffsets)
    /\ \A i \in FreshMoves :
          LET m == m_moves[i]
          IN /\ RefKindOf(m.piece) = WhiteKnight
                   => m.target \in RefLeaps(m.source, RefKnightOffsets)
             /\ (RefKindOf(m.piece) = WhiteKing /\ ~m.isCastling)
                   => m.target \in RefLeaps(m.source, RefKingOffsets)
             /\ (RefKindOf(m.piece) = WhitePawn /\ m.isCapture)
                   => m.target \in RefLeaps(m.source, RefPawnOffsets(RefSideOf(m.piece)))

\* moves were generated for a position with a pawn of the side to move on
\* the a file, whose table entry holds one square, and a knight on the b
\* file, whose entry holds three
C30_Witness ==
    /\ last.called /\ last.op = "generateMoves"
    /\ board.sideToMove = White
    /\ \E sq \in board.bitboards[WhitePawn] :
          ColOf(sq) = 0 /\ Cardinality(whitePawnsAttacks[sq]) = 1
    /\ \E sq \in board.bitboards[BlackKnight] :
          ColOf(sq) = 1 /\ Cardinality(knightAttacks[sq]) = 3
    /\ \E sq \in board.bitboards[WhiteKing] :
          ColOf(sq) = 7 /\ Cardinality(kingAttacks[sq]) = 3

====
